---- MODULE Spec2Model ----
(***************************************************************************)
(* A model of the MemOS lifecycle plugin: the dedup cache of lib/client,   *)
(* conversation segmentation and the pre-retrieval decision of             *)
(* lib/retrieval, and the append-only task reconciliation of               *)
(* lib/task-manager.  Strings are sequences of UTF-16 code units, each     *)
(* unit written as a one-character string (a Cyrillic letter as "uXXXX").  *)
(***************************************************************************)
EXTENDS Integers, Sequences, FiniteSets, TLC

VARIABLES
    recentHashes,   \* client.js _recentHashes: hash -> [count, lastSeen]
    now,            \* Date.now()
    markLog,        \* per hash: when markMemoryAdded was last called on it, and
                    \* whether no other call on that hash came after it
    lastCall,       \* the last dedup call made and what it returned
    ncalls,         \* number of dedup calls made so far
    flat,           \* segmentConversation: the flattened messages passed in
    segOpts,        \* segmentConversation: opts.minSegment and opts.maxSegment
    segments,       \* segmentConversation: the segments returned
    segDone,        \* segmentConversation has returned
    tasksFetch,     \* findTasks: outcome of the search for _type "task" records
    updatesFetch,   \* findTasks: outcome of the search for _type "task_update" records
    findFilter,     \* findTasks: the {status, priority, project} argument
    findResult,     \* findTasks: what the call produced
    findDone,       \* findTasks has settled
    prompt,         \* preRetrievalDecision: the prompt passed in
    decision,       \* preRetrievalDecision: the value returned
    decisionDone,   \* preRetrievalDecision has returned
    candidates,     \* rerankMemories: the memories passed in
    completion,     \* rerankMemories: outcome of the chat/complete call
    reranked,       \* rerankMemories: what the call produced
    rerankDone,     \* rerankMemories has settled
    rerankCalled,   \* rerankMemories: whether the completion call was made
    filterInput,    \* filterBySufficiency: the memories passed in
    filterOpts,     \* filterBySufficiency: minLength and maxDuplicateOverlap (percent)
    filterAccepted, \* filterBySufficiency: positions of the memories accepted
    filterOutput,   \* filterBySufficiency: the memories returned
    filterDone,     \* filterBySufficiency has returned
    apiRetries,     \* callApi: opts.retries
    apiAttempt,     \* callApi: the loop variable attempt
    apiPhase,       \* callApi: fetching, waiting (back-off), returned or raised
    apiErrors,      \* callApi: the errors caught so far
    apiWaits,       \* callApi: the back-off delays waited so far
    apiOutcome,     \* callApi: the value returned or the error thrown
    injPrompt,      \* context injection: event.prompt
    injState,       \* context injection: the plugin state when the handler is called
    injEnv,         \* context injection: the health probe, the clock and what the searches answer
    injResult,      \* context injection: what the handler did, returned and left in state
    injDone,        \* context injection: the handler has returned
    flushEntries,   \* compaction flush: allEntries (the content of each)
    flushPcs,       \* compaction flush: where each entry's callback stands
    flushTally,     \* compaction flush: the counters saved, failed, skipped
    flushStage,     \* compaction flush: persist (line 90), awaiting (line 93), done
    compactionCount,\* state.compactionCount
    flushSummaries, \* compaction flush: the compaction_summary records handed to addMemory
    hookHealthy,    \* what isHealthy() answers while the path runs
    hookRun,        \* the path that ran: its event, whether it consulted isHealthy, the endpoints it called
    hookDone,       \* a path has run
    lastCompactionTime,\* state.lastCompactionTime
    compactedAt,    \* the instant of the last after_compaction event, -1 before the first
    lastRunTime,    \* lastRunTime of the fact-extraction handler
    exRuns,         \* the extraction runs: when each started, and whether it still awaits
    exWrites,       \* the addMemory calls of the runs and how each settled
    exSkips,        \* the memories the runs skipped as duplicates
    exLog,          \* the last event handled
    exEvents,       \* number of events handled
    recentExecutions,\* recentExecutions of tool-trace: tool name to the instant of its last extracted skill
    skillNow,       \* Date.now() of the tool-trace component
    skillAttempts,  \* the completion calls of extractSkillFromTool: tool, instant, whether still awaited
    skillSaved,     \* skills handed to addMemory
    completions,    \* number of tool completions handled
    healthyCached,  \* _healthy of lib/health
    checkedAt,      \* _checkedAt of lib/health
    healthNow,      \* Date.now() of the health component
    healthCalls,    \* each caller's position inside isHealthy and what it saw
    healthCount,    \* number of isHealthy calls made
    healthyFrom,    \* isHealthy: what assigned _healthy last: the initial value, a first failed probe, a completed check
    firePc,         \* statements the calling hook has executed
    fireWrites,     \* the addMemory calls made: content, attempt of callApi, state of the promise
    fireLogged,     \* warnings addMemory logged
    fireSurfaced,   \* rejections that reached the caller or the host
    bcMessages,     \* the messages of the before_compaction event, flattened
    bcSegments,     \* the segments of the conversation
    bcYields,       \* the number of entries each summarized segment yielded
    bcSeen,         \* the number of entries whose hash the cache held fresh when the persistence started
    bcStage,        \* the position of the before_compaction handler
    boundaryRun,    \* what the hook that ran returned to the host, and which of its steps failed
    boundaryDone,   \* a hook has run
    typedText,      \* the conversation text given to extractAllTypedMemories
    relevantTypes,  \* the types detectRelevantTypes returned
    typedIndex,     \* 0 before the call, else the index of the type being extracted
    typedOutcomes,  \* how the completion of each type tried so far ended
    allMemories,    \* the memories collected so far
    typedReturned,  \* extractAllTypedMemories has returned
    taskRecords,    \* the creation records in the store, in the order written
    taskUpdates,    \* the update records in the store, in the order written
    createLog,      \* the createTask calls made so far: position, title, id and what was returned
    completeLog,    \* the completeTask calls made so far and the record each one writes
    taskViews,      \* the views the last findTasks returned
    doneSeen        \* the ids findTasks reported as done before its last call

dedupVars == <<recentHashes, now, markLog, lastCall, ncalls>>

segVars == <<flat, segOpts, segments, segDone>>

findVars == <<tasksFetch, updatesFetch, findFilter, findResult, findDone>>

decisionVars == <<prompt, decision, decisionDone>>

rerankVars == <<candidates, completion, reranked, rerankDone, rerankCalled>>

filterVars == <<filterInput, filterOpts, filterAccepted, filterOutput, filterDone>>

apiVars == <<apiRetries, apiAttempt, apiPhase, apiErrors, apiWaits, apiOutcome>>

injectVars == <<injPrompt, injState, injEnv, injResult, injDone>>

flushVars == <<flushEntries, flushPcs, flushTally, flushStage, compactionCount, flushSummaries>>

hookVars == <<hookHealthy, hookRun, hookDone>>

extractVars == <<lastCompactionTime, compactedAt, lastRunTime, exRuns, exWrites, exSkips, exLog, exEvents>>

skillVars == <<recentExecutions, skillNow, skillAttempts, skillSaved, completions>>

healthVars == <<healthyCached, checkedAt, healthNow, healthCalls, healthCount, healthyFrom>>

fireVars == <<firePc, fireWrites, fireLogged, fireSurfaced>>

scenarioVars == <<bcMessages, bcSegments, bcYields, bcSeen, bcStage>>

boundaryVars == <<boundaryRun, boundaryDone>>

typedVars == <<typedText, relevantTypes, typedIndex, typedOutcomes, allMemories, typedReturned>>

taskVars == <<taskRecords, taskUpdates, createLog, completeLog, taskViews, doneSeen>>

vars == <<dedupVars, segVars, findVars, decisionVars, rerankVars, filterVars, apiVars, injectVars, flushVars, hookVars, extractVars, skillVars, healthVars, fireVars, scenarioVars, boundaryVars, typedVars, taskVars>>

\* what an operation of one component leaves alone: the other components
notDedupVars == <<segVars, findVars, decisionVars, rerankVars, filterVars, apiVars, injectVars, flushVars, hookVars, extractVars, skillVars, healthVars, fireVars, scenarioVars, boundaryVars, typedVars, taskVars>>

notSegVars == <<dedupVars, findVars, decisionVars, rerankVars, filterVars, apiVars, injectVars, flushVars, hookVars, extractVars, skillVars, healthVars, fireVars, scenarioVars, boundaryVars, typedVars, taskVars>>

notFindVars == <<dedupVars, segVars, decisionVars, rerankVars, filterVars, apiVars, injectVars, flushVars, hookVars, extractVars, skillVars, healthVars, fireVars, scenarioVars, boundaryVars, typedVars, taskVars>>

notDecisionVars == <<dedupVars, segVars, findVars, rerankVars, filterVars, apiVars, injectVars, flushVars, hookVars, extractVars, skillVars, healthVars, fireVars, scenarioVars, boundaryVars, typedVars, taskVars>>

notRerankVars == <<dedupVars, segVars, findVars, decisionVars, filterVars, apiVars, injectVars, flushVars, hookVars, extractVars, skillVars, healthVars, fireVars, scenarioVars, boundaryVars, typedVars, taskVars>>

notFilterVars == <<dedupVars, segVars, findVars, decisionVars, rerankVars, apiVars, injectVars, flushVars, hookVars, extractVars, skillVars, healthVars, fireVars, scenarioVars, boundaryVars, typedVars, taskVars>>

notApiVars == <<dedupVars, segVars, findVars, decisionVars, rerankVars, filterVars, injectVars, flushVars, hookVars, extractVars, skillVars, healthVars, fireVars, scenarioVars, boundaryVars, typedVars, taskVars>>

notInjectVars == <<dedupVars, segVars, findVars, decisionVars, rerankVars, filterVars, apiVars, flushVars, hookVars, extractVars, skillVars, healthVars, fireVars, scenarioVars, boundaryVars, typedVars, taskVars>>

\* the flush shares the dedup cache with the dedup functions
notFlushVars == <<segVars, findVars, decisionVars, rerankVars, filterVars, apiVars, injectVars, hookVars, extractVars, skillVars, healthVars, fireVars, scenarioVars, boundaryVars, typedVars, taskVars>>

notHookVars == <<dedupVars, segVars, findVars, decisionVars, rerankVars, filterVars, apiVars, injectVars, flushVars, extractVars, skillVars, healthVars, fireVars, scenarioVars, boundaryVars, typedVars, taskVars>>

notExtractVars == <<segVars, findVars, decisionVars, rerankVars, filterVars, apiVars, injectVars, flushVars, hookVars, skillVars, healthVars, fireVars, scenarioVars, boundaryVars, typedVars, taskVars>>

notSkillVars == <<dedupVars, segVars, findVars, decisionVars, rerankVars, filterVars, apiVars, injectVars, flushVars, hookVars, extractVars, healthVars, fireVars, scenarioVars, boundaryVars, typedVars, taskVars>>

notHealthVars == <<dedupVars, segVars, findVars, decisionVars, rerankVars, filterVars, apiVars, injectVars, flushVars, hookVars, extractVars, skillVars, fireVars, scenarioVars, boundaryVars, typedVars, taskVars>>

notFireVars == <<dedupVars, segVars, findVars, decisionVars, rerankVars, filterVars, apiVars, injectVars, flushVars, hookVars, extractVars, skillVars, healthVars, scenarioVars, boundaryVars, typedVars, taskVars>>

notScenarioVars == <<segVars, findVars, decisionVars, rerankVars, filterVars, apiVars, injectVars, hookVars, extractVars, skillVars, healthVars, fireVars, boundaryVars, typedVars, taskVars>>

notBoundaryVars == <<dedupVars, segVars, findVars, decisionVars, rerankVars, filterVars, apiVars, injectVars, flushVars, hookVars, extractVars, skillVars, healthVars, fireVars, scenarioVars, typedVars, taskVars>>

notTypedVars == <<dedupVars, segVars, findVars, decisionVars, rerankVars, filterVars, apiVars, injectVars, flushVars, hookVars, extractVars, skillVars, healthVars, fireVars, scenarioVars, boundaryVars, taskVars>>

notTaskVars == <<segVars, findVars, decisionVars, rerankVars, filterVars, apiVars, injectVars, flushVars, hookVars, extractVars, skillVars, healthVars, fireVars, scenarioVars, boundaryVars, typedVars>>

\* JavaScript undefined / null / absent field
NULL == "null"

(***************************************************************************)
(* String helpers (String.prototype methods the code uses)                 *)
(***************************************************************************)

\* the characters the regular expression class \s matches
IsSpace(c) == c \in {" ", "\t", "\n"}

UpperToLower ==
    "A" :> "a" @@ "B" :> "b" @@ "C" :> "c" @@ "D" :> "d" @@ "E" :> "e" @@ "F" :> "f" @@
    "G" :> "g" @@ "H" :> "h" @@ "I" :> "i" @@ "J" :> "j" @@ "K" :> "k" @@ "L" :> "l" @@
    "M" :> "m" @@ "N" :> "n" @@ "O" :> "o" @@ "P" :> "p" @@ "Q" :> "q" @@ "R" :> "r" @@
    "S" :> "s" @@ "T" :> "t" @@ "U" :> "u" @@ "V" :> "v" @@ "W" :> "w" @@ "X" :> "x" @@
    "Y" :> "y" @@ "Z" :> "z" @@
    "u0410" :> "u0430" @@ "u0411" :> "u0431" @@ "u0412" :> "u0432" @@ "u0413" :> "u0433" @@
    "u0414" :> "u0434" @@ "u0415" :> "u0435" @@ "u0416" :> "u0436" @@ "u0417" :> "u0437" @@
    "u0418" :> "u0438" @@ "u0419" :> "u0439" @@ "u041a" :> "u043a" @@ "u041b" :> "u043b" @@
    "u041c" :> "u043c" @@ "u041d" :> "u043d" @@ "u041e" :> "u043e" @@ "u041f" :> "u043f" @@
    "u0420" :> "u0440" @@ "u0421" :> "u0441" @@ "u0422" :> "u0442" @@ "u0423" :> "u0443" @@
    "u0424" :> "u0444" @@ "u0425" :> "u0445" @@ "u0426" :> "u0446" @@ "u0427" :> "u0447" @@
    "u0428" :> "u0448" @@ "u0429" :> "u0449" @@ "u042a" :> "u044a" @@ "u042b" :> "u044b" @@
    "u042c" :> "u044c" @@ "u042d" :> "u044d" @@ "u042e" :> "u044e" @@ "u042f" :> "u044f"

\* String.prototype.toLowerCase
toLowerCase(s) ==
    [i \in 1..Len(s) |-> IF s[i] \in DOMAIN UpperToLower THEN UpperToLower[s[i]] ELSE s[i]]

RECURSIVE DropLeadingSpace(_)
DropLeadingSpace(s) ==
    IF s # <<>> /\ IsSpace(Head(s)) THEN DropLeadingSpace(Tail(s)) ELSE s

RECURSIVE DropTrailingSpace(_)
DropTrailingSpace(s) ==
    IF s # <<>> /\ IsSpace(s[Len(s)])
    THEN DropTrailingSpace(SubSeq(s, 1, Len(s) - 1))
    ELSE s

\* String.prototype.trim
trim(s) == DropTrailingSpace(DropLeadingSpace(s))

\* String.prototype.includes
includes(s, p) ==
    \E i \in 0..(Len(s) - Len(p)) : SubSeq(s, i + 1, i + Len(p)) = p

\* s.replace(/\s+/g, " "): every maximal run of whitespace becomes one space
RECURSIVE CollapseSpace(_)
CollapseSpace(s) ==
    IF s = <<>> THEN <<>>
    ELSE IF IsSpace(Head(s))
         THEN <<" ">> \o CollapseSpace(DropLeadingSpace(s))
         ELSE <<Head(s)>> \o CollapseSpace(Tail(s))

\* s.split(/\s+/): the pieces between maximal runs of whitespace (a leading or
\* trailing run leaves an empty piece; the empty string gives one empty piece)
RECURSIVE SplitSpaceFrom(_, _, _)
SplitSpaceFrom(s, cur, acc) ==
    IF s = <<>> THEN Append(acc, cur)
    ELSE IF IsSpace(Head(s))
         THEN SplitSpaceFrom(DropLeadingSpace(s), <<>>, Append(acc, cur))
         ELSE SplitSpaceFrom(Tail(s), Append(cur, Head(s)), acc)

SplitSpace(s) == SplitSpaceFrom(s, <<>>, <<>>)

(***************************************************************************)
(* lib/client: content-hash deduplication                                  *)
(***************************************************************************)

DEDUP_WINDOW_MS == 300000

\* size of _recentHashes above which markMemoryAdded sweeps expired entries
SWEEP_THRESHOLD == 500

\* number of dedup calls in one behaviour
MaxCalls == 3

Types == { <<"m", "e", "m", "o", "r", "y">>, <<"t", "a", "s", "k">> }

\* "buy oat milk tonight": exactly 20 characters
TextA ==
    <<"b", "u", "y", " ", "o", "a", "t", " ", "m", "i", "l", "k", " ",
      "t", "o", "n", "i", "g", "h", "t">>

\* " Buy  Oat MILK tonight\n": the same content after normalization
TextAVariant ==
    <<" ", "B", "u", "y", " ", " ", "O", "a", "t", " ", "M", "I", "L", "K", " ",
      "t", "o", "n", "i", "g", "h", "t", "\n">>

\* "buy oat milk friday": 19 characters
TextShort ==
    <<"b", "u", "y", " ", "o", "a", "t", " ", "m", "i", "l", "k", " ",
      "f", "r", "i", "d", "a", "y">>

Texts == {TextA, TextAVariant, TextShort}

\* the instants at which calls are made: both sides of the window's edge
Instants ==
    {0, DEDUP_WINDOW_MS - 1, DEDUP_WINDOW_MS, 2 * DEDUP_WINDOW_MS - 1}

\* SHA256(`${type}:${normalized}`)[:16]; the digest is injective on the texts
\* of the model, so a hash is written as the string that is digested
computeContentHash(content, type) ==
    type \o <<":">> \o trim(CollapseSpace(toLowerCase(content)))

\* Map.prototype.set
MapSet(m, k, v) ==
    [x \in (DOMAIN m) \cup {k} |-> IF x = k THEN v ELSE m[x]]

isDuplicateMemory_InclusiveWindow(cache, t, text, type) ==
    IF text = <<>> \/ Len(text) < 20 THEN [ret |-> FALSE, cache |-> cache]
    ELSE LET hash == computeContentHash(text, type)
         IN  IF hash \in DOMAIN cache /\ t - cache[hash].lastSeen <= DEDUP_WINDOW_MS
             THEN [ret |-> TRUE,
                   cache |-> MapSet(cache, hash,
                                [count |-> cache[hash].count + 1, lastSeen |-> t])]
             ELSE [ret |-> FALSE, cache |-> cache]

isDuplicateMemory_EvictExpired(cache, t, text, type) ==
    IF text = <<>> \/ Len(text) < 20 THEN [ret |-> FALSE, cache |-> cache]
    ELSE LET hash == computeContentHash(text, type)
         IN  IF hash \in DOMAIN cache /\ t - cache[hash].lastSeen < DEDUP_WINDOW_MS
             THEN [ret |-> TRUE,
                   cache |-> MapSet(cache, hash,
                                [count |-> cache[hash].count + 1, lastSeen |-> t])]
             ELSE [ret |-> FALSE,
                   cache |-> [k \in (DOMAIN cache) \ {hash} |-> cache[k]]]

\* isDuplicateMemory(text, type) at time t: the value returned and the cache left
isDuplicateMemory(cache, t, text, type) ==
    IF text = <<>> \/ Len(text) < 20 THEN [ret |-> FALSE, cache |-> cache]
    ELSE LET hash == computeContentHash(text, type)
         IN  IF hash \in DOMAIN cache /\ t - cache[hash].lastSeen < DEDUP_WINDOW_MS
             THEN [ret |-> TRUE,
                   cache |-> MapSet(cache, hash,
                                [count |-> cache[hash].count + 1, lastSeen |-> t])]
             ELSE [ret |-> FALSE, cache |-> cache]

\* markMemoryAdded(text, type) at time t: the cache left
markMemoryAdded(cache, t, text, type) ==
    IF text = <<>> \/ Len(text) < 20 THEN cache
    ELSE LET set == MapSet(cache, computeContentHash(text, type),
                           [count |-> 1, lastSeen |-> t])
             cutoff == t - DEDUP_WINDOW_MS
         IN  IF Cardinality(DOMAIN set) > SWEEP_THRESHOLD
             THEN [k \in {x \in DOMAIN set : ~(set[x].lastSeen < cutoff)} |-> set[k]]
             ELSE set

Hashes == {computeContentHash(text, type) : text \in Texts, type \in Types}

NoCall ==
    [op |-> NULL, text |-> <<>>, type |-> <<>>, ret |-> FALSE,
     marked |-> FALSE, markAge |-> 0, fresh |-> FALSE]

DedupInit ==
    /\ recentHashes = <<>>
    /\ now = 0
    /\ markLog = [h \in Hashes |-> [marked |-> FALSE, at |-> 0, fresh |-> FALSE]]
    /\ lastCall = NoCall
    /\ ncalls = 0

DedupIdle == DedupInit

\* a hook calls isDuplicateMemory(text, type)
CallIsDuplicateMemory(text, type) ==
    /\ ncalls < MaxCalls
    /\ LET r == isDuplicateMemory(recentHashes, now, text, type)
           h == computeContentHash(text, type)
       IN  /\ recentHashes' = r.cache
           /\ lastCall' = [op |-> "isDuplicateMemory", text |-> text, type |-> type,
                           ret |-> r.ret,
                           marked |-> markLog[h].marked,
                           markAge |-> IF markLog[h].marked THEN now - markLog[h].at
                                       ELSE 0,
                           fresh |-> markLog[h].fresh]
           /\ markLog' = [markLog EXCEPT ![h].fresh = FALSE]
    /\ ncalls' = ncalls + 1
    /\ UNCHANGED <<now, notDedupVars>>

\* a hook calls markMemoryAdded(text, type)
CallMarkMemoryAdded(text, type) ==
    /\ ncalls < MaxCalls
    /\ recentHashes' = markMemoryAdded(recentHashes, now, text, type)
    /\ lastCall' = [op |-> "markMemoryAdded", text |-> text, type |-> type,
                    ret |-> FALSE, marked |-> FALSE, markAge |-> 0, fresh |-> FALSE]
    /\ markLog' = [markLog EXCEPT ![computeContentHash(text, type)] =
                                       [marked |-> TRUE, at |-> now, fresh |-> TRUE]]
    /\ ncalls' = ncalls + 1
    /\ UNCHANGED <<now, notDedupVars>>

\* time passes
AdvanceClock(t) ==
    /\ t > now
    /\ now' = t
    /\ UNCHANGED <<recentHashes, markLog, lastCall, ncalls, notDedupVars>>

DedupNext ==
    \/ \E text \in Texts, type \in Types : CallIsDuplicateMemory(text, type)
    \/ \E text \in Texts, type \in Types : CallMarkMemoryAdded(text, type)
    \/ \E t \in Instants : AdvanceClock(t)

(***************************************************************************)
(* lib/retrieval: conversation segmentation                                *)
(***************************************************************************)

\* the options the compaction flush passes (and the defaults of the function)
FlushMinSegment == 4

FlushMaxSegment == 12

\* small options, tried with every input: 1 <= minSegment <= maxSegment <= MaxSmallSegment
MaxSmallSegment == 3

\* longest input tried with the small options
MaxLen == 7

\* longest input tried with the flush options: FlushMaxSegment + MaxTail
MaxTail == 2

\* flattenMessages keeps only these roles
Roles == {"user", "assistant"}

\* the flattened messages with the given roles; each text is distinct
Messages(roles) == [i \in 1..Len(roles) |-> [role |-> roles[i], text |-> i]]

RECURSIVE SegmentScan_NoMinCheck(_, _, _, _, _, _)
SegmentScan_NoMinCheck(msgs, i, current, segs, minSegment, maxSegment) ==
    IF i > Len(msgs) THEN [current |-> current, segments |-> segs]
    ELSE LET cur == Append(current, msgs[i])
             isBreakPoint ==
                 /\ msgs[i].role = "assistant"
                 /\ i + 1 <= Len(msgs)
                 /\ msgs[i + 1].role = "user"
         IN  IF isBreakPoint \/ Len(cur) >= maxSegment
             THEN SegmentScan_NoMinCheck(msgs, i + 1, <<>>, Append(segs, cur),
                                         minSegment, maxSegment)
             ELSE SegmentScan_NoMinCheck(msgs, i + 1, cur, segs, minSegment, maxSegment)

RECURSIVE SegmentScan_LateTurn(_, _, _, _, _, _)
SegmentScan_LateTurn(msgs, i, current, segs, minSegment, maxSegment) ==
    IF i > Len(msgs) THEN [current |-> current, segments |-> segs]
    ELSE LET cur == Append(current, msgs[i])
             isBreakPoint ==
                 /\ Len(cur) > minSegment
                 /\ msgs[i].role = "assistant"
                 /\ i + 1 <= Len(msgs)
                 /\ msgs[i + 1].role = "user"
         IN  IF isBreakPoint \/ Len(cur) >= maxSegment
             THEN SegmentScan_LateTurn(msgs, i + 1, <<>>, Append(segs, cur),
                                       minSegment, maxSegment)
             ELSE SegmentScan_LateTurn(msgs, i + 1, cur, segs, minSegment, maxSegment)

\* the for loop of segmentConversation from index i (1-based) on: the chunk
\* being built and the segments completed when the loop ends
RECURSIVE SegmentScan(_, _, _, _, _, _)
SegmentScan(msgs, i, current, segs, minSegment, maxSegment) ==
    IF i > Len(msgs) THEN [current |-> current, segments |-> segs]
    ELSE LET cur == Append(current, msgs[i])
             isBreakPoint ==
                 /\ Len(cur) >= minSegment
                 /\ msgs[i].role = "assistant"
                 /\ i + 1 <= Len(msgs)
                 /\ msgs[i + 1].role = "user"
         IN  IF isBreakPoint \/ Len(cur) >= maxSegment
             THEN SegmentScan(msgs, i + 1, <<>>, Append(segs, cur), minSegment, maxSegment)
             ELSE SegmentScan(msgs, i + 1, cur, segs, minSegment, maxSegment)

\* the remaining messages after the loop: merged into the last segment when
\* shorter than minSegment, else a segment of their own
MergeTail(scan, minSegment) ==
    IF Len(scan.current) > 0
    THEN IF Len(scan.current) < minSegment /\ Len(scan.segments) > 0
         THEN [scan.segments EXCEPT ![Len(scan.segments)] = @ \o scan.current]
         ELSE Append(scan.segments, scan.current)
    ELSE scan.segments

segmentConversation_DropShortTail(msgs, minSegment, maxSegment) ==
    IF Len(msgs) <= maxSegment THEN <<msgs>>
    ELSE LET scan == SegmentScan(msgs, 1, <<>>, <<>>, minSegment, maxSegment)
         IN  IF Len(scan.current) >= minSegment
             THEN Append(scan.segments, scan.current)
             ELSE scan.segments

segmentConversation(msgs, minSegment, maxSegment) ==
    IF Len(msgs) <= maxSegment THEN <<msgs>>
    ELSE MergeTail(SegmentScan(msgs, 1, <<>>, <<>>, minSegment, maxSegment), minSegment)

\* the segments concatenated in order
RECURSIVE Concat(_)
Concat(segs) == IF segs = <<>> THEN <<>> ELSE Head(segs) \o Concat(Tail(segs))

\* the small options with every input up to MaxLen messages, and the options
\* of the compaction flush with every input up to MaxTail messages beyond
\* FlushMaxSegment
SegInit ==
    /\ \/ \E mn \in 1..MaxSmallSegment, mx \in 1..MaxSmallSegment, len \in 0..MaxLen :
             \E roles \in [1..len -> Roles] :
                /\ mn <= mx
                /\ segOpts = [minSegment |-> mn, maxSegment |-> mx]
                /\ flat = Messages(roles)
       \/ \E len \in 0..(FlushMaxSegment + MaxTail) :
             \E roles \in [1..len -> Roles] :
                /\ segOpts = [minSegment |-> FlushMinSegment,
                              maxSegment |-> FlushMaxSegment]
                /\ flat = Messages(roles)
    /\ segments = <<>>
    /\ segDone = FALSE

SegIdle ==
    /\ segOpts = [minSegment |-> FlushMinSegment, maxSegment |-> FlushMaxSegment]
    /\ flat = <<>>
    /\ segments = <<>>
    /\ segDone = FALSE

\* the compaction flush calls segmentConversation(flat, opts)
Segment ==
    /\ ~segDone
    /\ segments' = segmentConversation(flat, segOpts.minSegment, segOpts.maxSegment)
    /\ segDone' = TRUE
    /\ UNCHANGED <<flat, segOpts, notSegVars>>

SegNext == Segment

(***************************************************************************)
(* lib/task-manager: findTasks, reconciliation of the append-only records  *)
(***************************************************************************)

\* records fetched by the two searches together
MaxRecords == 3

TaskIds == {"t1", "t2"}

\* info of a creation record as the search returns it; createTask writes
\* task_status "pending", a field may be missing
CreationRecords ==
    [task_id : TaskIds \cup {NULL}, task_status : {"pending", NULL},
     priority : {"P0", NULL}, project : {NULL}]

\* info of an update record; task_completed_at is 0 when the field is missing,
\* else the instant it names (the ISO strings of normalizeDate have a fixed width)
UpdateRecords ==
    {[task_id |-> id, task_status |-> st, task_completed_at |-> at,
      outcome |-> IF st = "done" /\ at # 0 THEN "shipped" ELSE NULL] :
        id \in TaskIds, st \in {"done", NULL}, at \in 0..2}

NoFilter == [status |-> NULL, priority |-> NULL, project |-> NULL]

Filters == [status : {NULL, "pending", "done"}, priority : {NULL}, project : {NULL}]

\* .catch((err) => []) on a search: a failed search counts as no record
SearchCatch(fetch) == IF fetch.ok THEN fetch.memories ELSE <<>>

RECURSIVE BuildUpdateMap_LastWins(_, _, _)
BuildUpdateMap_LastWins(updates, i, updateMap) ==
    IF i > Len(updates) THEN updateMap
    ELSE LET info == updates[i]
         IN  IF info.task_id # NULL
             THEN BuildUpdateMap_LastWins(updates, i + 1, MapSet(updateMap, info.task_id, info))
             ELSE BuildUpdateMap_LastWins(updates, i + 1, updateMap)

\* the update index: task_id -> latest update record
RECURSIVE BuildUpdateMap(_, _, _)
BuildUpdateMap(updates, i, updateMap) ==
    IF i > Len(updates) THEN updateMap
    ELSE LET info == updates[i]
             replaces ==
                 \/ info.task_id \notin DOMAIN updateMap
                 \/ updateMap[info.task_id].task_completed_at = 0
                 \/ /\ info.task_completed_at # 0
                    /\ info.task_completed_at > updateMap[info.task_id].task_completed_at
         IN  IF info.task_id # NULL /\ replaces
             THEN BuildUpdateMap(updates, i + 1, MapSet(updateMap, info.task_id, info))
             ELSE BuildUpdateMap(updates, i + 1, updateMap)

CurrentStatus_CreationFirst(info, updateMap) ==
    IF info.task_status # NULL THEN info.task_status
    ELSE IF info.task_id \in DOMAIN updateMap /\ updateMap[info.task_id].task_status # NULL
         THEN updateMap[info.task_id].task_status
         ELSE "pending"

\* update?.task_status || info.task_status || "pending"
CurrentStatus(info, updateMap) ==
    IF info.task_id \in DOMAIN updateMap /\ updateMap[info.task_id].task_status # NULL
    THEN updateMap[info.task_id].task_status
    ELSE IF info.task_status # NULL THEN info.task_status ELSE "pending"

\* the view pushed for a creation record
TaskView(info, updateMap) ==
    [taskId |-> info.task_id,
     task_status |-> CurrentStatus(info, updateMap),
     priority |-> IF info.priority # NULL THEN info.priority ELSE "P2",
     project |-> info.project,
     task_completed_at |-> IF info.task_id \in DOMAIN updateMap
                           THEN updateMap[info.task_id].task_completed_at ELSE 0,
     outcome |-> IF info.task_id \in DOMAIN updateMap
                 THEN updateMap[info.task_id].outcome ELSE NULL]

\* the three filter tests of the loop
FilteredOut(info, updateMap, filter) ==
    \/ filter.status # NULL /\ CurrentStatus(info, updateMap) # filter.status
    \/ filter.priority # NULL /\ info.priority # filter.priority
    \/ filter.project # NULL /\ info.project # filter.project

RECURSIVE Reconcile_NoSeen(_, _, _, _, _, _)
Reconcile_NoSeen(tasks, i, seen, updateMap, filter, reconciled) ==
    IF i > Len(tasks) THEN reconciled
    ELSE LET info == tasks[i]
         IN  IF info.task_id = NULL \/ FilteredOut(info, updateMap, filter)
             THEN Reconcile_NoSeen(tasks, i + 1, seen, updateMap, filter, reconciled)
             ELSE Reconcile_NoSeen(tasks, i + 1, seen, updateMap, filter,
                                   Append(reconciled, TaskView(info, updateMap)))

\* the reconciliation loop over the creation records from index i on
RECURSIVE Reconcile(_, _, _, _, _, _)
Reconcile(tasks, i, seen, updateMap, filter, reconciled) ==
    IF i > Len(tasks) THEN reconciled
    ELSE LET info == tasks[i]
         IN  IF info.task_id = NULL \/ info.task_id \in seen
             THEN Reconcile(tasks, i + 1, seen, updateMap, filter, reconciled)
             ELSE IF FilteredOut(info, updateMap, filter)
                  THEN Reconcile(tasks, i + 1, seen \cup {info.task_id},
                                 updateMap, filter, reconciled)
                  ELSE Reconcile(tasks, i + 1, seen \cup {info.task_id},
                                 updateMap, filter,
                                 Append(reconciled, TaskView(info, updateMap)))

\* an update record taken for a creation record
AsCreation(u) ==
    [task_id |-> u.task_id, task_status |-> u.task_status,
     priority |-> NULL, project |-> NULL]

findTasks_UpdatesMaterialize(tasksSearch, updatesSearch, filter) ==
    LET updates == SearchCatch(updatesSearch)
        tasks == SearchCatch(tasksSearch) \o [i \in 1..Len(updates) |-> AsCreation(updates[i])]
    IN  [raised |-> FALSE,
         views |-> Reconcile(tasks, 1, {}, BuildUpdateMap(updates, 1, <<>>), filter, <<>>)]

findTasks_NoCatch(tasksSearch, updatesSearch, filter) ==
    IF tasksSearch.ok /\ updatesSearch.ok
    THEN [raised |-> FALSE,
          views |-> Reconcile(tasksSearch.memories, 1, {},
                              BuildUpdateMap(updatesSearch.memories, 1, <<>>),
                              filter, <<>>)]
    ELSE [raised |-> TRUE, views |-> <<>>]

\* findTasks(filter) given the outcomes of its two searches
findTasks(tasksSearch, updatesSearch, filter) ==
    LET tasks == SearchCatch(tasksSearch)
        updates == SearchCatch(updatesSearch)
    IN  [raised |-> FALSE,
         views |-> Reconcile(tasks, 1, {}, BuildUpdateMap(updates, 1, <<>>), filter, <<>>)]

NoResult == [raised |-> FALSE, views |-> <<>>]

\* the two searches have settled: each failed, or returned some records in
\* some order
FindInit ==
    /\ \E a \in 0..MaxRecords :
          \E b \in 0..(MaxRecords - a) :
             \E ts \in [1..a -> CreationRecords], us \in [1..b -> UpdateRecords],
                okT \in BOOLEAN, okU \in BOOLEAN :
                /\ tasksFetch = [ok |-> okT, memories |-> IF okT THEN ts ELSE <<>>]
                /\ updatesFetch = [ok |-> okU, memories |-> IF okU THEN us ELSE <<>>]
    /\ findFilter = NoFilter
    /\ findResult = NoResult
    /\ findDone = FALSE

FindIdle ==
    /\ tasksFetch = [ok |-> TRUE, memories |-> <<>>]
    /\ updatesFetch = [ok |-> TRUE, memories |-> <<>>]
    /\ findFilter = NoFilter
    /\ findResult = NoResult
    /\ findDone = FALSE

\* a caller awaits findTasks(filter)
FindTasks(filter) ==
    /\ ~findDone
    /\ findFilter' = filter
    /\ findResult' = findTasks(tasksFetch, updatesFetch, filter)
    /\ findDone' = TRUE
    /\ UNCHANGED <<tasksFetch, updatesFetch, notFindVars>>

FindNext == \E filter \in Filters : FindTasks(filter)

\* creation records fetched when the filters are tried
MaxFilterRecords == 2

\* info of the creation records the filters are tried on: createTask writes
\* the priority it was given (P2 by default) and a project when one is given;
\* the record of an auto-extracted task has a priority only when the
\* extraction named one
FilterRecords ==
    [task_id : TaskIds, task_status : {"pending"},
     priority : {"P0", "P2", NULL}, project : {"home", NULL}]

\* the completions fetched when the filters are tried
FilterUpdates ==
    {[task_id |-> id, task_status |-> "done", task_completed_at |-> 1,
      outcome |-> NULL] : id \in TaskIds}

\* { status, priority, project }, each optional
TaskFilters ==
    [status : {NULL, "pending", "done"}, priority : {NULL, "P0", "P2"},
     project : {NULL, "home"}]

\* both searches succeeded: some creation records in some order and at most
\* one completion
TaskFilterInit ==
    /\ \E a \in 0..MaxFilterRecords :
          \E ts \in [1..a -> FilterRecords] :
             tasksFetch = [ok |-> TRUE, memories |-> ts]
    /\ \E us \in {<<>>} \cup {<<u>> : u \in FilterUpdates} :
          updatesFetch = [ok |-> TRUE, memories |-> us]
    /\ findFilter = NoFilter
    /\ findResult = NoResult
    /\ findDone = FALSE

TaskFilterNext == \E filter \in TaskFilters : FindTasks(filter)

(***************************************************************************)
(* lib/retrieval: the pre-retrieval decision                               *)
(***************************************************************************)

\* casual patterns, English
NO_RETRIEVE_PATTERNS_EN ==
    {<<"h", "e", "l", "l", "o">>,
     <<"h", "i", " ">>,
     <<"h", "e", "y">>,
     <<"g", "o", "o", "d", " ", "m", "o", "r", "n", "i", "n", "g">>,
     <<"g", "o", "o", "d", " ", "e", "v", "e", "n", "i", "n", "g">>,
     <<"g", "o", "o", "d", " ", "n", "i", "g", "h", "t">>,
     <<"t", "h", "a", "n", "k", "s">>,
     <<"t", "h", "a", "n", "k", " ", "y", "o", "u">>,
     <<"o", "k">>,
     <<"o", "k", "a", "y">>,
     <<"b", "y", "e">>,
     <<"g", "o", "o", "d", "b", "y", "e">>,
     <<"h", "o", "w", " ", "a", "r", "e", " ", "y", "o", "u">>,
     <<"w", "h", "a", "t", "'", "s", " ", "u", "p">>,
     <<"s", "u", "r", "e">>,
     <<"g", "o", "t", " ", "i", "t">>,
     <<"u", "n", "d", "e", "r", "s", "t", "o", "o", "d">>,
     <<"y", "e", "s">>,
     <<"n", "o">>,
     <<"a", "g", "r", "e", "e">>,
     <<"c", "o", "o", "l">>,
     <<"n", "i", "c", "e">>,
     <<"g", "r", "e", "a", "t">>}

\* casual patterns, Russian
NO_RETRIEVE_PATTERNS_RU ==
    {<<"u043f", "u0440", "u0438", "u0432", "u0435", "u0442">>,
     <<"u0437", "u0434", "u0440", "u0430", "u0432", "u0441", "u0442", "u0432", "u0443", "u0439">>,
     <<"u0434", "u043e", "u0431", "u0440">>,
     <<"u0441", "u043f", "u0430", "u0441", "u0438", "u0431", "u043e">>,
     <<"u0431", "u043b", "u0430", "u0433", "u043e", "u0434", "u0430", "u0440">>,
     <<"u043f", "u043e", "u043a", "u0430">>,
     <<"u0445", "u043e", "u0440", "u043e", "u0448", "u043e">>,
     <<"u043b", "u0430", "u0434", "u043d", "u043e">>,
     <<"u043e", "u043a", "u0435", "u0439">>,
     <<"u043e", "u043a", " ">>,
     <<"u0434", "u0430", " ">>,
     <<"u043d", "u0435", "u0442", " ">>,
     <<"u043f", "u043e", "u043d", "u044f", "u043b">>,
     <<"u044f", "u0441", "u043d", "u043e">>,
     <<"u043a", "u0440", "u0443", "u0442", "u043e">>,
     <<"u043e", "u0442", "u043b", "u0438", "u0447", "u043d", "u043e">>,
     <<"u0441", "u0443", "u043f", "u0435", "u0440">>,
     <<"u0443", "u0433", "u0443">>}

\* explicit memory references, English
FORCE_RETRIEVE_PATTERNS_EN ==
    {<<"r", "e", "m", "e", "m", "b", "e", "r">>,
     <<"r", "e", "c", "a", "l", "l">>,
     <<"y", "o", "u", " ", "s", "a", "i", "d">>,
     <<"w", "e", " ", "d", "i", "s", "c", "u", "s", "s", "e", "d">>,
     <<"l", "a", "s", "t", " ", "t", "i", "m", "e">>,
     <<"p", "r", "e", "v", "i", "o", "u", "s", "l", "y">>,
     <<"m", "y", " ", "p", "r", "e", "f", "e", "r", "e", "n", "c", "e">>,
     <<"w", "h", "a", "t", " ", "d", "i", "d">>,
     <<"w", "h", "e", "n", " ", "d", "i", "d">>,
     <<"y", "o", "u", " ", "t", "o", "l", "d", " ", "m", "e">>,
     <<"a", "s", " ", "b", "e", "f", "o", "r", "e">>,
     <<"l", "i", "k", "e", " ", "l", "a", "s", "t">>}

\* explicit memory references, Russian
FORCE_RETRIEVE_PATTERNS_RU ==
    {<<"u043f", "u043e", "u043c", "u043d", "u0438", "u0448", "u044c">>,
     <<"u0432", "u0441", "u043f", "u043e", "u043c", "u043d", "u0438">>,
     <<"u0442", "u044b", " ", "u0433", "u043e", "u0432", "u043e", "u0440", "u0438", "u043b">>,
     <<"u043c", "u044b", " ", "u043e", "u0431", "u0441", "u0443", "u0436", "u0434", "u0430", "u043b", "u0438">>,
     <<"u0432", " ", "u043f", "u0440", "u043e", "u0448", "u043b", "u044b", "u0439">>,
     <<"u0440", "u0430", "u043d", "u0435", "u0435">>,
     <<"u043a", "u0430", "u043a", " ", "u0440", "u0430", "u043d", "u044c", "u0448", "u0435">>,
     <<"u043c", "u043e", "u0451", " ", "u043f", "u0440", "u0435", "u0434", "u043f", "u043e", "u0447", "u0442">>,
     <<"u0447", "u0442", "u043e", " ", "u0442", "u044b">>,
     <<"u043a", "u043e", "u0433", "u0434", "u0430", " ", "u043c", "u044b">>,
     <<"u043a", "u0430", "u043a", " ", "u043e", "u0431", "u044b", "u0447", "u043d", "u043e">>,
     <<"u043a", "u0430", "u043a", " ", "u0432", "u0441", "u0435", "u0433", "u0434", "u0430">>}

\* the thresholds of preRetrievalDecision
MinPromptLength == 8

ShortPromptLength == 15

CasualPromptLength == 30

CasualMaxWords == 3

\* words a prompt is made of
MaxWords == 4

\* the pieces prompts are built from: "ok", "Recall", a 16-letter word that holds
\* no pattern, a run of three spaces, and the Russian for "Hi" and "remember"
WordOk == <<"o", "k">>

WordRecall == <<"R", "e", "c", "a", "l", "l">>

WordLong == <<"i", "n", "t", "e", "r", "n", "a", "t", "i", "o", "n", "a", "l", "i", "z", "e">>

WordBlank == <<" ", " ", " ">>

WordPrivet == <<"u041f", "u0440", "u0438", "u0432", "u0435", "u0442">>

WordPomnish == <<"u043f", "u043e", "u043c", "u043d", "u0438", "u0448", "u044c">>

Fragments == {WordOk, WordRecall, WordLong, WordBlank, WordPrivet, WordPomnish}

\* the pieces joined by single spaces
RECURSIVE JoinWords(_)
JoinWords(ws) ==
    IF ws = <<>> THEN <<>>
    ELSE IF Len(ws) = 1 THEN ws[1]
         ELSE ws[1] \o <<" ">> \o JoinWords(Tail(ws))

\* NO_RETRIEVE_PATTERNS_EN.some(...) || NO_RETRIEVE_PATTERNS_RU.some(...)
isCasual(lower) ==
    \/ \E p \in NO_RETRIEVE_PATTERNS_EN : includes(lower, p)
    \/ \E p \in NO_RETRIEVE_PATTERNS_RU : includes(lower, p)

\* FORCE_RETRIEVE_PATTERNS_EN.some(...) || FORCE_RETRIEVE_PATTERNS_RU.some(...)
isForce(lower) ==
    \/ \E p \in FORCE_RETRIEVE_PATTERNS_EN : includes(lower, p)
    \/ \E p \in FORCE_RETRIEVE_PATTERNS_RU : includes(lower, p)

\* prompt.toLowerCase().trim()
Lower(p) == trim(toLowerCase(p))

preRetrievalDecision_NoLengthGate(p) ==
    IF p = <<>> \/ Len(p) < MinPromptLength THEN "skip"
    ELSE LET lower == Lower(p)
         IN  IF Len(lower) < ShortPromptLength /\ isCasual(lower) THEN "skip"
             ELSE IF isForce(lower) THEN "force"
             ELSE IF Len(SplitSpace(lower)) <= CasualMaxWords /\ isCasual(lower)
                  THEN "skip"
                  ELSE "retrieve"

\* preRetrievalDecision(prompt), the tests in the order the code makes them
preRetrievalDecision(p) ==
    IF p = <<>> \/ Len(p) < MinPromptLength THEN "skip"
    ELSE LET lower == Lower(p)
         IN  IF Len(lower) < ShortPromptLength /\ isCasual(lower) THEN "skip"
             ELSE IF isForce(lower) THEN "force"
             ELSE IF /\ Len(lower) < CasualPromptLength
                     /\ Len(SplitSpace(lower)) <= CasualMaxWords
                     /\ isCasual(lower)
                  THEN "skip"
                  ELSE "retrieve"

\* a prompt arrives at before_agent_start
DecisionInit ==
    /\ \E n \in 0..MaxWords : \E ws \in [1..n -> Fragments] : prompt = JoinWords(ws)
    /\ decision = NULL
    /\ decisionDone = FALSE

DecisionIdle ==
    /\ prompt = <<>>
    /\ decision = NULL
    /\ decisionDone = FALSE

\* the hook classifies the prompt
Decide ==
    /\ ~decisionDone
    /\ decision' = preRetrievalDecision(prompt)
    /\ decisionDone' = TRUE
    /\ UNCHANGED <<prompt, notDecisionVars>>

DecisionNext == Decide

(***************************************************************************)
(* lib/utils parseJSON and lib/reranker rerankMemories                     *)
(***************************************************************************)

MIN_MEMORIES_TO_RERANK == 3

\* candidates handed to the reranker
MaxCandidates == 4

\* memories are told apart by a name only
MemoryNames == {"a", "b"}

\* answers of the completion model (result.data.response); arrays are flat
RespEmpty == <<>>

RespNoneArray == <<"[", "]">>

RespTwo == <<"[", "0", ",", " ", "2", "]">>

RespDupOrder == <<"[", "2", ",", " ", "0", ",", " ", "2", "]">>

RespOutOfRange == <<"[", "9", "9", "]">>

RespNegative == <<"[", "-", "1", "]">>

RespStringIndex == <<"[", "\"", "1", "\"", "]">>

RespStringWord == <<"[", "\"", "x", "\"", "]">>

RespFraction == <<"[", "1", ".", "5", "]">>

RespProse == <<"n", "o", "n", "e">>

RespObject == <<"{", "\"", "r", "e", "l", "e", "v", "a", "n", "t", "\"", ":", " ", "f", "a", "l", "s", "e", "}">>

RespWrapped == <<"R", "e", "l", "e", "v", "a", "n", "t", ":", " ", "[", "1", "]", ".">>

RespMixed == <<"[", "0", ",", " ", "7", "]">>

RespTrailingComma == <<"[", "1", ",", "]">>

Responses ==
    {RespEmpty,
     RespNoneArray,
     RespTwo,
     RespDupOrder,
     RespOutOfRange,
     RespNegative,
     RespStringIndex,
     RespStringWord,
     RespFraction,
     RespProse,
     RespObject,
     RespWrapped,
     RespMixed,
     RespTrailingComma}

Digits == {"0", "1", "2", "3", "4", "5", "6", "7", "8", "9"}

DigitValue ==
    "0" :> 0 @@ "1" :> 1 @@ "2" :> 2 @@ "3" :> 3 @@ "4" :> 4 @@
    "5" :> 5 @@ "6" :> 6 @@ "7" :> 7 @@ "8" :> 8 @@ "9" :> 9

IsDigits(s) == s # <<>> /\ \A i \in 1..Len(s) : s[i] \in Digits

\* value of a run of decimal digits
RECURSIVE DigitsValue(_)
DigitsValue(s) ==
    IF s = <<>> THEN 0
    ELSE 10 * DigitsValue(SubSeq(s, 1, Len(s) - 1)) + DigitValue[s[Len(s)]]

FirstIndexOf(s, c) ==
    IF \E i \in 1..Len(s) : s[i] = c
    THEN CHOOSE i \in 1..Len(s) : s[i] = c /\ \A j \in 1..(i - 1) : s[j] # c
    ELSE 0

LastIndexOf(s, c) ==
    IF \E i \in 1..Len(s) : s[i] = c
    THEN CHOOSE i \in 1..Len(s) : s[i] = c /\ \A j \in (i + 1)..Len(s) : s[j] # c
    ELSE 0

\* text.match(/\[[\s\S]*\]/) with open "[" and close "]": from the first open
\* to the last close after it; the empty string when there is no match
RegexMatch(s, open, close) ==
    LET i == FirstIndexOf(s, open)
        j == LastIndexOf(s, close)
    IN  IF i # 0 /\ j > i THEN SubSeq(s, i, j) ELSE <<>>

\* s.split(sep) for a one-character separator
RECURSIVE SplitOn(_, _)
SplitOn(s, sep) ==
    LET i == FirstIndexOf(s, sep)
    IN  IF i = 0 THEN <<s>>
        ELSE <<SubSeq(s, 1, i - 1)>> \o SplitOn(SubSeq(s, i + 1, Len(s)), sep)

\* a JSON value: t is "int", "real" (a number that is no integer), "str" or
\* "invalid" (no JSON scalar)
JSONInt(n) == [t |-> "int", v |-> n, s |-> <<>>]

JSONReal == [t |-> "real", v |-> 0, s |-> <<>>]

JSONStr(str) == [t |-> "str", v |-> 0, s |-> str]

JSONInvalid == [t |-> "invalid", v |-> 0, s |-> <<>>]

\* JSON number without sign: digits, no leading zero, optional fraction
ParseUnsigned(p) ==
    LET dot == FirstIndexOf(p, ".")
        whole == IF dot = 0 THEN p ELSE SubSeq(p, 1, dot - 1)
        frac == IF dot = 0 THEN <<>> ELSE SubSeq(p, dot + 1, Len(p))
    IN  IF ~IsDigits(whole) \/ (Len(whole) > 1 /\ whole[1] = "0") THEN JSONInvalid
        ELSE IF dot = 0 THEN JSONInt(DigitsValue(whole))
        ELSE IF ~IsDigits(frac) THEN JSONInvalid
        ELSE IF \A i \in 1..Len(frac) : frac[i] = "0" THEN JSONInt(DigitsValue(whole))
        ELSE JSONReal

\* one element of a flat JSON array
ParseItem(p) ==
    IF p = <<>> THEN JSONInvalid
    ELSE IF p[1] = "\""
         THEN IF /\ Len(p) >= 2
                 /\ p[Len(p)] = "\""
                 /\ \A i \in 2..(Len(p) - 1) : p[i] \notin {"\"", "\\"}
              THEN JSONStr(SubSeq(p, 2, Len(p) - 1))
              ELSE JSONInvalid
    ELSE IF p[1] = "-"
         THEN LET u == ParseUnsigned(Tail(p))
              IN  IF u.t = "int" THEN JSONInt(0 - u.v) ELSE u
    ELSE ParseUnsigned(p)

\* JSON.parse of a text "[ ... ]": [ok, items]
JSONParseArray(m) ==
    LET inner == trim(SubSeq(m, 2, Len(m) - 1))
        pieces == SplitOn(inner, ",")
        items == [i \in 1..Len(pieces) |-> ParseItem(trim(pieces[i]))]
    IN  IF inner = <<>> THEN [ok |-> TRUE, items |-> <<>>]
        ELSE IF \E i \in 1..Len(items) : items[i].t = "invalid"
             THEN [ok |-> FALSE, items |-> <<>>]
             ELSE [ok |-> TRUE, items |-> items]

\* .replace(/,\s*([}\]])/g, "$1") on a text "[ ... ]": a comma before the
\* closing bracket goes
CleanTrailingComma(m) ==
    LET body == DropTrailingSpace(SubSeq(m, 1, Len(m) - 1))
    IN  IF body # <<>> /\ body[Len(body)] = ","
        THEN SubSeq(body, 1, Len(body) - 1) \o <<"]">>
        ELSE m

\* parseJSON(text): [isArray, items]; isArray is FALSE for null and for an object
parseJSON(text) ==
    LET arr == RegexMatch(text, "[", "]")
        first == JSONParseArray(arr)
        second == JSONParseArray(CleanTrailingComma(arr))
    IN  IF arr = <<>> THEN [isArray |-> FALSE, items |-> <<>>]
        ELSE IF first.ok THEN [isArray |-> TRUE, items |-> first.items]
        ELSE IF second.ok THEN [isArray |-> TRUE, items |-> second.items]
        ELSE [isArray |-> FALSE, items |-> <<>>]

\* parseInt(str, 10): [nan, v]
parseInt(str) ==
    LET t == DropLeadingSpace(str)
        neg == t # <<>> /\ t[1] = "-"
        u == IF t # <<>> /\ t[1] \in {"-", "+"} THEN Tail(t) ELSE t
        n == IF \E i \in 1..Len(u) : u[i] \notin Digits
             THEN (CHOOSE i \in 1..Len(u) :
                      u[i] \notin Digits /\ \A j \in 1..(i - 1) : u[j] \in Digits) - 1
             ELSE Len(u)
    IN  IF n = 0 THEN [nan |-> TRUE, v |-> 0]
        ELSE [nan |-> FALSE,
              v |-> IF neg THEN 0 - DigitsValue(SubSeq(u, 1, n))
                    ELSE DigitsValue(SubSeq(u, 1, n))]

\* the index an element of the answer stands for: [valid, n]
IndexOf(idx, count) ==
    LET n == IF idx.t = "str" THEN parseInt(idx.s)
             ELSE [nan |-> idx.t # "int", v |-> idx.v]
    IN  [valid |-> ~n.nan /\ n.v >= 0 /\ n.v < count, n |-> n.v]

RECURSIVE ValidIndices_NoSeen(_, _, _, _)
ValidIndices_NoSeen(indices, i, count, validIndices) ==
    IF i > Len(indices) THEN validIndices
    ELSE LET x == IndexOf(indices[i], count)
         IN  IF x.valid
             THEN ValidIndices_NoSeen(indices, i + 1, count, Append(validIndices, x.n))
             ELSE ValidIndices_NoSeen(indices, i + 1, count, validIndices)

\* the validation loop: indices in range, first occurrence kept
RECURSIVE ValidIndices(_, _, _, _)
ValidIndices(indices, i, count, validIndices) ==
    IF i > Len(indices) THEN validIndices
    ELSE LET x == IndexOf(indices[i], count)
         IN  IF x.valid /\ \A k \in 1..Len(validIndices) : validIndices[k] # x.n
             THEN ValidIndices(indices, i + 1, count, Append(validIndices, x.n))
             ELSE ValidIndices(indices, i + 1, count, validIndices)

\* the guard before the try block: the completion is called only with at
\* least MIN_MEMORIES_TO_RERANK memories
callsCompletion(memories) == ~(Len(memories) < MIN_MEMORIES_TO_RERANK)

rerankMemories_NoCatch(memories, api) ==
    IF Len(memories) < MIN_MEMORIES_TO_RERANK THEN [raised |-> FALSE, memories |-> memories]
    ELSE IF ~api.ok THEN [raised |-> TRUE, memories |-> <<>>]
    ELSE LET indices == parseJSON(api.response)
             validIndices == ValidIndices(indices.items, 1, Len(memories), <<>>)
         IN  IF ~indices.isArray THEN [raised |-> FALSE, memories |-> memories]
             ELSE [raised |-> FALSE,
                   memories |-> [k \in 1..Len(validIndices) |-> memories[validIndices[k] + 1]]]

\* rerankMemories(query, memories) given the outcome of its completion call
rerankMemories(memories, api) ==
    IF Len(memories) < MIN_MEMORIES_TO_RERANK THEN [raised |-> FALSE, memories |-> memories]
    ELSE IF ~api.ok THEN [raised |-> FALSE, memories |-> memories]
    ELSE LET indices == parseJSON(api.response)
             validIndices == ValidIndices(indices.items, 1, Len(memories), <<>>)
         IN  IF ~indices.isArray THEN [raised |-> FALSE, memories |-> memories]
             ELSE [raised |-> FALSE,
                   memories |-> [k \in 1..Len(validIndices) |-> memories[validIndices[k] + 1]]]

\* outcomes of callApi("/product/chat/complete"): raised after its retries, or
\* an answer
CompletionOutcomes ==
    {[ok |-> FALSE, response |-> <<>>]} \cup {[ok |-> TRUE, response |-> r] : r \in Responses}

NoRerank == [raised |-> FALSE, memories |-> <<>>]

\* the hook hands the search result to the reranker
RerankInit ==
    /\ \E n \in 0..MaxCandidates :
          \E ms \in [1..n -> MemoryNames] : candidates = ms
    /\ completion \in CompletionOutcomes
    /\ reranked = NoRerank
    /\ rerankDone = FALSE
    /\ rerankCalled = FALSE

RerankIdle ==
    /\ candidates = <<>>
    /\ completion = [ok |-> FALSE, response |-> <<>>]
    /\ reranked = NoRerank
    /\ rerankDone = FALSE
    /\ rerankCalled = FALSE

\* the hook awaits rerankMemories(query, memories)
Rerank ==
    /\ ~rerankDone
    /\ rerankCalled' = callsCompletion(candidates)
    /\ reranked' = rerankMemories(candidates, completion)
    /\ rerankDone' = TRUE
    /\ UNCHANGED <<candidates, completion, notRerankVars>>

RerankNext == Rerank

(***************************************************************************)
(* hooks/tool-trace: the trace record; lib/retrieval: filterBySufficiency  *)
(***************************************************************************)

\* JSON.stringify of a string that needs no escaping
JSONString(s) == <<"\"">> \o s \o <<"\"">>

TRACE_RESULT_CHARS == 300

\* truncate(obj, maxLen) of handleToolTrace, for a string or a missing value
truncate(str, maxLen) ==
    IF str = <<>> THEN <<>>
    ELSE IF Len(str) > maxLen THEN Append(SubSeq(str, 1, maxLen), "u2026") ELSE str

\* tool_result_persist events: error is a flag, message the empty string when
\* the event carries none; duration is the text of Date.now() - startTime
ToolNames == {<<"e", "x", "e", "c">>, <<"m", "e", "m", "o", "s", "_", "s", "e", "a", "r", "c", "h">>}

ToolMessages == {<<>>, <<"o", "k">>}

ToolDurations == {<<"1", "2">>, <<"9", "0", "0">>}

SKIP_PREFIXES == {<<"m", "e", "m", "o", "s">>, <<"m", "e", "m", "o", "r", "y">>}

ToolEvents ==
    [toolName : ToolNames, message : ToolMessages, error : BOOLEAN, durationMs : ToolDurations]

startsWith(s, p) == Len(s) >= Len(p) /\ SubSeq(s, 1, Len(p)) = p

\* the event is one handleToolTrace records
Traced(event) == \A p \in SKIP_PREFIXES : ~startsWith(event.toolName, p)

\* "success" as JSON.stringify renders !event.error && event.message: false,
\* the message, or nothing when there is no message
SuccessMember(event) ==
    IF event.error THEN <<",", "\"", "s", "u", "c", "c", "e", "s", "s", "\"", ":", "f", "a", "l", "s", "e">>
    ELSE IF event.message = <<>> THEN <<>>
    ELSE <<",", "\"", "s", "u", "c", "c", "e", "s", "s", "\"", ":">> \o JSONString(event.message)

\* the content handleToolTrace passes to addMemory
toolTraceContent(event) ==
    <<"{", "\"", "t", "y", "p", "e", "\"", ":", "\"", "t", "o", "o", "l", "_", "t", "r", "a", "c", "e", "\"", ",", "\"", "t", "o", "o", "l", "\"", ":">> \o JSONString(event.toolName)
    \o <<",", "\"", "r", "e", "s", "u", "l", "t", "\"", ":">> \o JSONString(truncate(event.message, TRACE_RESULT_CHARS))
    \o SuccessMember(event)
    \o <<",", "\"", "d", "u", "r", "a", "t", "i", "o", "n", "M", "s", "\"", ":">> \o event.durationMs
    \o <<",", "\"", "t", "s", "\"", ":", "\"", "2", "0", "2", "6", "-", "0", "1", "-", "0", "1", "T", "0", "0", ":", "0", "0", ":", "0", "0", ".", "0", "0", "0", "Z", "\"", "}">>

\* what the tool-trace hook has written
TraceContents == {toolTraceContent(e) : e \in {x \in ToolEvents : Traced(x)}}

\* texts of the memories a search returns
\* prose
TextDeploy ==
    <<"d", "e", "p", "l", "o", "y", " ", "u", "s", "e", "s", " ", "d", "o", "c", "k", "e", "r", " ", "c", "o", "m", "p", "o", "s", "e", " ", "o", "n", " ", "t", "h", "e", " ", "s", "t", "a", "g", "i", "n", "g", " ", "h", "o", "s", "t">>

\* the same but for case and one more word: overlap 8/9 with TextDeploy
TextDeployNear ==
    <<"D", "e", "p", "l", "o", "y", " ", "u", "s", "e", "s", " ", "D", "o", "c", "k", "e", "r", " ", "c", "o", "m", "p", "o", "s", "e", " ", "o", "n", " ", "t", "h", "e", " ", "s", "t", "a", "g", "i", "n", "g", " ", "h", "o", "s", "t", " ", "n", "o", "w">>

\* overlap 7/10 with TextDeploy
TextDeployPartial ==
    <<"d", "e", "p", "l", "o", "y", " ", "u", "s", "e", "s", " ", "d", "o", "c", "k", "e", "r", " ", "c", "o", "m", "p", "o", "s", "e", " ", "o", "n", " ", "t", "h", "e", " ", "s", "t", "a", "g", "i", "n", "g", " ", "b", "o", "x", " ", "t", "o", "d", "a", "y">>

\* unrelated prose
TextEditor ==
    <<"u", "s", "e", "r", " ", "p", "r", "e", "f", "e", "r", "s", " ", "d", "a", "r", "k", " ", "m", "o", "d", "e", " ", "i", "n", " ", "t", "h", "e", " ", "e", "d", "i", "t", "o", "r">>

\* shorter than minLength
TextTooShort ==
    <<"d", "a", "r", "k", " ", "m", "o", "d", "e", ",", " ", "a", "l", "w", "a", "y", "s">>

\* more than 200 characters
TextLongA ==
    <<"t", "h", "e", " ", "m", "i", "g", "r", "a", "t", "i", "o", "n", " ", "p", "l", "a", "n", " ", "f", "o", "r", " ", "t", "h", "e", " ", "b", "i", "l", "l", "i", "n", "g", " ", "s", "e", "r", "v", "i", "c", "e", " ", "k", "e", "e", "p", "s", " ", "t", "h", "e", " ", "o", "l", "d", " ", "i", "n", "v", "o", "i", "c", "e", "s", " ", "t", "a", "b", "l", "e", " ", "r", "e", "a", "d", " ", "o", "n", "l", "y", " ", "w", "h", "i", "l", "e", " ", "t", "h", "e", " ", "n", "e", "w", " ", "l", "e", "d", "g", "e", "r", " ", "t", "a", "b", "l", "e", "s", " ", "a", "r", "e", " ", "f", "i", "l", "l", "e", "d", " ", "b", "y", " ", "a", " ", "n", "i", "g", "h", "t", "l", "y", " ", "j", "o", "b", " ", "a", "n", "d", " ", "t", "h", "e", "n", " ", "s", "w", "i", "t", "c", "h", "e", "s", " ", "t", "h", "e", " ", "r", "e", "a", "d", "e", "r", "s", " ", "o", "v", "e", "r", " ", "o", "n", "e", " ", "r", "e", "g", "i", "o", "n", " ", "a", "t", " ", "a", " ", "t", "i", "m", "e", " ", "s", "o", " ", "t", "h", "a", " ", "a", "n", "d", " ", "e", "n", "d", "s", " ", "w", "i", "t", "h", " ", "t", "h", "e", "s", "e", " ", "w", "o", "r", "d", "s">>

\* the same first 200 characters as TextLongA
TextLongB ==
    <<"t", "h", "e", " ", "m", "i", "g", "r", "a", "t", "i", "o", "n", " ", "p", "l", "a", "n", " ", "f", "o", "r", " ", "t", "h", "e", " ", "b", "i", "l", "l", "i", "n", "g", " ", "s", "e", "r", "v", "i", "c", "e", " ", "k", "e", "e", "p", "s", " ", "t", "h", "e", " ", "o", "l", "d", " ", "i", "n", "v", "o", "i", "c", "e", "s", " ", "t", "a", "b", "l", "e", " ", "r", "e", "a", "d", " ", "o", "n", "l", "y", " ", "w", "h", "i", "l", "e", " ", "t", "h", "e", " ", "n", "e", "w", " ", "l", "e", "d", "g", "e", "r", " ", "t", "a", "b", "l", "e", "s", " ", "a", "r", "e", " ", "f", "i", "l", "l", "e", "d", " ", "b", "y", " ", "a", " ", "n", "i", "g", "h", "t", "l", "y", " ", "j", "o", "b", " ", "a", "n", "d", " ", "t", "h", "e", "n", " ", "s", "w", "i", "t", "c", "h", "e", "s", " ", "t", "h", "e", " ", "r", "e", "a", "d", "e", "r", "s", " ", "o", "v", "e", "r", " ", "o", "n", "e", " ", "r", "e", "g", "i", "o", "n", " ", "a", "t", " ", "a", " ", "t", "i", "m", "e", " ", "s", "o", " ", "t", "h", "a", " ", "b", "u", "t", " ", "c", "l", "o", "s", "e", "s", " ", "o", "n", " ", "s", "o", "m", "e", "t", "h", "i", "n", "g", " ", "e", "l", "s", "e", " ", "e", "n", "t", "i", "r", "e", "l", "y">>

ProseTexts ==
    {TextDeploy,
     TextDeployNear,
     TextDeployPartial,
     TextEditor,
     TextTooShort,
     TextLongA,
     TextLongB}

\* memories per search result
MaxMemories == 3

\* a memory with its text in the field "memory", or in the field "content"
InMemory(text) == [memory |-> text, content |-> <<>>, memory_content |-> <<>>]

InContent(text) == [memory |-> <<>>, content |-> text, memory_content |-> <<>>]

\* one trace record is enough to tell the records apart from prose
SampleTrace ==
    toolTraceContent([toolName |-> <<"e", "x", "e", "c">>, message |-> <<"o", "k">>,
                      error |-> FALSE, durationMs |-> <<"9", "0", "0">>])

TextMemories ==
    {InMemory(text) : text \in (ProseTexts \ {TextEditor}) \cup {SampleTrace}}
        \cup {InContent(TextEditor)}

\* mem.memory || mem.content || mem.memory_content || ""
getMemoryContent(mem) ==
    IF mem.memory # <<>> THEN mem.memory
    ELSE IF mem.content # <<>> THEN mem.content
    ELSE mem.memory_content

\* new Set(s.split(/\s+/)): the maximal runs of non-space characters, and the
\* empty piece that a leading or trailing run of whitespace (or the empty
\* string) leaves
WordSet(s) ==
    LET starts == {i \in 1..Len(s) : ~IsSpace(s[i]) /\ (i = 1 \/ IsSpace(s[i - 1]))}
        ends == {j \in 1..Len(s) : ~IsSpace(s[j]) /\ (j = Len(s) \/ IsSpace(s[j + 1]))}
        endOf(i) == CHOOSE j \in ends : j >= i /\ \A k \in ends : k >= i => j <= k
    IN  {SubSeq(s, i, endOf(i)) : i \in starts}
        \cup (IF s = <<>> \/ IsSpace(s[1]) \/ IsSpace(s[Len(s)]) THEN {<<>>} ELSE {})

\* _overlapRatio(a, b) as the fraction [num, den]; 0 is [0, 1]
overlapRatio(a, b) ==
    LET setA == WordSet(a)
        setB == WordSet(b)
        intersection == Cardinality(setA \cap setB)
        union == Cardinality(setA) + Cardinality(setB) - intersection
    IN  IF union > 0 THEN [num |-> intersection, den |-> union] ELSE [num |-> 0, den |-> 1]

\* ratio > percent / 100
ExceedsPercent(ratio, percent) == ratio.num * 100 > percent * ratio.den

OVERLAP_PREFIX_CHARS == 200

\* content.toLowerCase().slice(0, 200)
contentLower(content) ==
    LET lower == toLowerCase(content)
    IN  IF Len(lower) > OVERLAP_PREFIX_CHARS THEN SubSeq(lower, 1, OVERLAP_PREFIX_CHARS) ELSE lower

\* content.startsWith("{") && content.includes('"type"')
IsMetaRecord(content) == startsWith(content, <<"{">>) /\ includes(content, <<"\"", "t", "y", "p", "e", "\"">>)

filterLoop_KeepMeta(memories, i, minLength, maxOverlap, seenTexts, accepted) ==
    LET content == getMemoryContent(memories[i])
    IN  IF content = <<>> \/ Len(content) < minLength THEN "drop"
        ELSE IF \E k \in 1..Len(seenTexts) :
                   ExceedsPercent(overlapRatio(contentLower(content), seenTexts[k]), maxOverlap)
             THEN "drop"
             ELSE "accept"

filterLoop_NoDedup(memories, i, minLength, maxOverlap, seenTexts, accepted) ==
    LET content == getMemoryContent(memories[i])
    IN  IF content = <<>> \/ Len(content) < minLength THEN "drop"
        ELSE IF IsMetaRecord(content) THEN "drop"
        ELSE "accept"

\* one turn of the loop: what becomes of memories[i]
filterLoop(memories, i, minLength, maxOverlap, seenTexts, accepted) ==
    LET content == getMemoryContent(memories[i])
    IN  IF content = <<>> \/ Len(content) < minLength THEN "drop"
        ELSE IF IsMetaRecord(content) THEN "drop"
        ELSE IF \E k \in 1..Len(seenTexts) :
                   ExceedsPercent(overlapRatio(contentLower(content), seenTexts[k]), maxOverlap)
             THEN "drop"
             ELSE "accept"

\* the loop from memories[i] on; accepted holds the indices of the memories
\* taken so far
RECURSIVE filterFrom(_, _, _, _, _, _)
filterFrom(memories, i, minLength, maxOverlap, seenTexts, accepted) ==
    IF i > Len(memories) THEN accepted
    ELSE IF filterLoop(memories, i, minLength, maxOverlap, seenTexts, accepted) = "accept"
         THEN filterFrom(memories, i + 1, minLength, maxOverlap,
                         Append(seenTexts, contentLower(getMemoryContent(memories[i]))),
                         Append(accepted, i))
         ELSE filterFrom(memories, i + 1, minLength, maxOverlap, seenTexts, accepted)

\* the indices, in order, of the memories filterBySufficiency returns
acceptedIndices(memories, opts) ==
    filterFrom(memories, 1, opts.minLength, opts.maxDuplicateOverlap, <<>>, <<>>)

\* filterBySufficiency(memories, opts); maxDuplicateOverlap in percent
filterBySufficiency(memories, opts) ==
    LET idx == acceptedIndices(memories, opts)
    IN  [k \in 1..Len(idx) |-> memories[idx[k]]]

\* the options the two generations of the injection hook pass
FilterOptions ==
    {[minLength |-> 20, maxDuplicateOverlap |-> 65],
     [minLength |-> 20, maxDuplicateOverlap |-> 80]}

\* a search has returned its text memories
FilterInit ==
    /\ \E n \in 0..MaxMemories : \E ms \in [1..n -> TextMemories] : filterInput = ms
    /\ filterOpts \in FilterOptions
    /\ filterAccepted = <<>>
    /\ filterOutput = <<>>
    /\ filterDone = FALSE

FilterIdle ==
    /\ filterInput = <<>>
    /\ filterOpts = [minLength |-> 20, maxDuplicateOverlap |-> 65]
    /\ filterAccepted = <<>>
    /\ filterOutput = <<>>
    /\ filterDone = FALSE

Filter ==
    /\ ~filterDone
    /\ filterAccepted' = acceptedIndices(filterInput, filterOpts)
    /\ filterOutput' = filterBySufficiency(filterInput, filterOpts)
    /\ filterDone' = TRUE
    /\ UNCHANGED <<filterInput, filterOpts, notFilterVars>>

FilterNext == Filter

(***************************************************************************)
(* lib/client: callApi, the retrying transport                             *)
(***************************************************************************)

BACKOFF_BASE_MS == 150

\* the retries option; the call sites pass 1, 3 or leave the default 2
MaxRetries == 3

\* what makes an attempt fail: fetch rejects, the timer aborts it, the status
\* is not 2xx, or the body is no JSON
FailureKinds == {"network", "timeout", "http", "json"}

RECURSIVE Pow2(_)
Pow2(n) == IF n = 0 THEN 1 ELSE 2 * Pow2(n - 1)

\* 150 * 2 ** attempt
backoffDelay(attempt) == BACKOFF_BASE_MS * Pow2(attempt)

hasRetryLeft_OneMore(attempt, retries) == attempt <= retries

\* attempt < retries: another attempt follows the failed one
hasRetryLeft(attempt, retries) == attempt < retries

NoOutcome == [ok |-> FALSE, attempt |-> 0, error |-> "none"]

\* callApi(endpoint, body, {retries}) is entered: attempt = 0
CallApiInit ==
    /\ apiRetries \in 0..MaxRetries
    /\ apiAttempt = 0
    /\ apiPhase = "fetching"
    /\ apiErrors = <<>>
    /\ apiWaits = <<>>
    /\ apiOutcome = NoOutcome

CallApiIdle ==
    /\ apiRetries = 0
    /\ apiAttempt = 0
    /\ apiPhase = "idle"
    /\ apiErrors = <<>>
    /\ apiWaits = <<>>
    /\ apiOutcome = NoOutcome

\* the attempt gets a 2xx answer with a JSON body: callApi returns it
FetchSucceeds ==
    /\ apiPhase = "fetching"
    /\ apiPhase' = "returned"
    /\ apiOutcome' = [ok |-> TRUE, attempt |-> apiAttempt, error |-> "none"]
    /\ UNCHANGED <<apiRetries, apiAttempt, apiErrors, apiWaits, notApiVars>>

\* the attempt fails: the catch keeps the error, then waits or leaves the loop
\* and throws lastError
FetchFails(kind) ==
    /\ apiPhase = "fetching"
    /\ apiErrors' = Append(apiErrors, [kind |-> kind, attempt |-> apiAttempt])
    /\ IF hasRetryLeft(apiAttempt, apiRetries)
       THEN /\ apiPhase' = "waiting"
            /\ apiWaits' = Append(apiWaits, backoffDelay(apiAttempt))
            /\ UNCHANGED apiOutcome
       ELSE /\ apiPhase' = "raised"
            /\ apiOutcome' = [ok |-> FALSE, attempt |-> apiAttempt, error |-> kind]
            /\ UNCHANGED apiWaits
    /\ UNCHANGED <<apiRetries, apiAttempt, notApiVars>>

\* the back-off timer fires: attempt++
BackoffElapses ==
    /\ apiPhase = "waiting"
    /\ apiAttempt' = apiAttempt + 1
    /\ apiPhase' = "fetching"
    /\ UNCHANGED <<apiRetries, apiErrors, apiWaits, apiOutcome, notApiVars>>

CallApiNext ==
    \/ FetchSucceeds
    \/ \E kind \in FailureKinds : FetchFails(kind)
    \/ BackoffElapses

(***************************************************************************)
(* hooks/context-injection: the before_agent_start handler                 *)
(***************************************************************************)

TODO_REMIND_COOLDOWN_MS == 300000

\* Array.prototype.slice(0, n), String.prototype.slice(0, n)
slice(s, n) == SubSeq(s, 1, IF Len(s) < n THEN Len(s) ELSE n)

\* prompts of a turn
PromptEmpty == <<>>

PromptGo == <<"g", "o">>

PromptHello == <<"h", "e", "l", "l", "o">>

PromptRecall == <<"R", "e", "c", "a", "l", "l", " ", "t", "h", "e", " ", "p", "l", "a", "n">>

PromptStaging == <<"w", "h", "a", "t", " ", "c", "h", "a", "n", "g", "e", "d", " ", "i", "n", " ", "s", "t", "a", "g", "i", "n", "g">>

InjectPrompts == {PromptEmpty, PromptGo, PromptHello, PromptRecall, PromptStaging}

\* a memory the search returned with none of memory, content, memory_content
NoContentMemory == [memory |-> <<>>, content |-> <<>>, memory_content |-> <<>>]

SkillMemory ==
    [name |-> <<"d", "e", "p", "l", "o", "y">>,
     description |-> <<"r", "u", "n", " ", "c", "o", "m", "p", "o", "s", "e", " ", "u", "p", " ", "o", "n", " ", "t", "h", "e", " ", "s", "t", "a", "g", "i", "n", "g", " ", "h", "o", "s", "t">>]

\* what searchMemories resolves to, or its rejection (ok = FALSE)
SearchResult(text, skill, pref) ==
    [ok |-> TRUE, textMemories |-> text, skillMemories |-> skill, prefMemories |-> pref]

SearchFailed ==
    [ok |-> FALSE, textMemories |-> <<>>, skillMemories |-> <<>>, prefMemories |-> <<>>]

InjectTextLists ==
    {<<>>,
     <<InMemory(TextDeploy)>>,
     <<InMemory(TextTooShort)>>,
     <<InMemory(TextDeploy), InContent(TextEditor), InMemory(TextLongA)>>}

RelevantResults ==
    {SearchFailed}
        \cup {SearchResult(text, <<>>, <<>>) : text \in InjectTextLists}
        \cup {SearchResult(text, <<SkillMemory>>, <<>>) : text \in InjectTextLists}
        \cup {SearchResult(text, <<>>, <<NoContentMemory>>) : text \in InjectTextLists}
        \cup {SearchResult(text, <<>>, <<InMemory(TextEditor)>>) : text \in InjectTextLists}

SummaryResults ==
    {SearchFailed,
     SearchResult(<<>>, <<>>, <<>>),
     SearchResult(<<InMemory(TextDeploy)>>, <<>>, <<>>),
     SearchResult(<<InMemory(TextLongB)>>, <<>>, <<NoContentMemory>>)}

\* the two searches of findTasks: failed, nothing stored, one pending task,
\* one task completed since
TaskFetches ==
    {[tasks |-> [ok |-> FALSE, memories |-> <<>>],
      updates |-> [ok |-> TRUE, memories |-> <<>>]],
     [tasks |-> [ok |-> TRUE, memories |-> <<>>],
      updates |-> [ok |-> TRUE, memories |-> <<>>]],
     [tasks |-> [ok |-> TRUE,
                 memories |-> <<[task_id |-> "t1", task_status |-> "pending",
                                 priority |-> "P0", project |-> NULL]>>],
      updates |-> [ok |-> TRUE, memories |-> <<>>]],
     [tasks |-> [ok |-> TRUE,
                 memories |-> <<[task_id |-> "t1", task_status |-> "pending",
                                 priority |-> "P0", project |-> NULL]>>],
      updates |-> [ok |-> TRUE,
                   memories |-> <<[task_id |-> "t1", task_status |-> "done",
                                   task_completed_at |-> 1, outcome |-> "shipped"]>>]]}

\* state.rerankerEnabled with the outcome of the reranker's completion call
RerankSettings ==
    {[enabled |-> FALSE, completion |-> [ok |-> FALSE, response |-> <<>>]],
     [enabled |-> TRUE, completion |-> [ok |-> FALSE, response |-> <<>>]],
     [enabled |-> TRUE, completion |-> [ok |-> TRUE, response |-> RespTwo]]}

\* Date.now() of the turn
InjectNow == 1000000

\* state.lastTodoRemindTime before the turn: never set, or exactly the
\* cool-down ago
LastRemindTimes == {0, InjectNow - TODO_REMIND_COOLDOWN_MS}

\* .catch(() => emptyResult) on a search of the enriched mode
CatchEmpty(res) == IF res.ok THEN res ELSE SearchResult(<<>>, <<>>, <<>>)

\* (m.memory || m.content || "").slice(0, 100)
mergeKey(m) ==
    slice(IF m.memory # <<>> THEN m.memory ELSE m.content, 100)

\* the loop merging the text memories of both searches
RECURSIVE mergeText(_, _, _, _)
mergeText(ms, i, seen, memories) ==
    IF i > Len(ms) THEN memories
    ELSE IF mergeKey(ms[i]) # <<>> /\ mergeKey(ms[i]) \notin seen
         THEN mergeText(ms, i + 1, seen \cup {mergeKey(ms[i])}, Append(memories, ms[i]))
         ELSE mergeText(ms, i + 1, seen, memories)

CONTEXT_HEADER == <<"R", "e", "l", "e", "v", "a", "n", "t", " ", "m", "e", "m", "o", "r", "i", "e", "s", " ", "f", "r", "o", "m", " ", "M", "e", "m", "O", "S", ":">>

CONTEXT_HEADER_RESTORED == <<"C", "o", "n", "t", "e", "x", "t", " ", "r", "e", "s", "t", "o", "r", "e", "d", " ", "f", "r", "o", "m", " ", "M", "e", "m", "O", "S", " ", "a", "f", "t", "e", "r", " ", "c", "o", "m", "p", "a", "c", "t", "i", "o", "n", ":">>

SKILL_HEADER == <<"R", "e", "l", "e", "v", "a", "n", "t", " ", "s", "k", "i", "l", "l", "s", " ", "f", "r", "o", "m", " ", "M", "e", "m", "O", "S", ":">>

PREF_HEADER == <<"U", "s", "e", "r", " ", "p", "r", "e", "f", "e", "r", "e", "n", "c", "e", "s", " ", "f", "r", "o", "m", " ", "M", "e", "m", "O", "S", ":">>

TASKS_HEADER == <<"u1f4cb", " ", "T", "a", "s", "k", "s", ":">>

CONTEXT_BUDGET == 3000

PREF_MAX_CHARS == 300

TASK_LIST_MAX == 8

\* content.length > n ? content.slice(0, n) + "..." : content
ellipsize(content, n) ==
    IF Len(content) > n THEN Append(slice(content, n), "u2026") ELSE content

\* the lines the loop of a format function pushes for the memories that have
\* content (the model's memories carry no timestamp and no tags)
RECURSIVE contentLines(_, _, _, _)
contentLines(items, i, prefix, perItem) ==
    IF i > Len(items) THEN <<>>
    ELSE IF getMemoryContent(items[i]) = <<>>
         THEN contentLines(items, i + 1, prefix, perItem)
         ELSE <<prefix \o ellipsize(getMemoryContent(items[i]), perItem)>>
                  \o contentLines(items, i + 1, prefix, perItem)

\* parts.length <= 1 ? "" : parts.join("\n"): a block is the sequence of its
\* lines, the empty string the empty sequence
joinParts(header, lines) == IF lines = <<>> THEN <<>> ELSE <<header>> \o lines

formatContextBlock(memories, maxItems, maxChars, header) ==
    IF memories = <<>> THEN <<>>
    ELSE LET items == slice(memories, maxItems)
             share == CONTEXT_BUDGET \div (IF Len(items) > 1 THEN Len(items) ELSE 1)
             perItem == IF maxChars < share THEN maxChars ELSE share
         IN  joinParts(header, contentLines(items, 1, <<"-", " ">>, perItem))

\* the model's skills carry a name and a description and no procedure
formatSkillBlock(skillMemories, maxItems) ==
    IF skillMemories = <<>> THEN <<>>
    ELSE LET items == slice(skillMemories, maxItems)
         IN  joinParts(SKILL_HEADER,
                       [k \in 1..Len(items) |->
                           <<"-", " ", "[", "S", "k", "i", "l", "l", ":", " ">> \o items[k].name \o <<"]", " ">>
                               \o items[k].description])

formatPrefBlock(prefMemories, maxItems) ==
    IF prefMemories = <<>> THEN <<>>
    ELSE joinParts(PREF_HEADER,
                   contentLines(slice(prefMemories, maxItems), 1, <<"-", " ", "[", "P", "r", "e", "f", "e", "r", "e", "n", "c", "e", "]", " ">>, PREF_MAX_CHARS))

\* formatTaskList(tasks): the views of the model carry no title, no project
\* and no due date; the task id stands for the title
formatTaskList(tasks) ==
    IF tasks = <<>> THEN <<>>
    ELSE LET shown == slice(tasks, TASK_LIST_MAX)
         IN  <<TASKS_HEADER>>
                 \o [k \in 1..Len(shown) |->
                        <<IF shown[k].priority = "P0" THEN "u1f534"
                          ELSE IF shown[k].priority = "P1" THEN "u1f7e0" ELSE "u1f7e1",
                          " ", shown[k].taskId, " ", "[", shown[k].priority, "]">>]
                 \o (IF Len(tasks) > TASK_LIST_MAX THEN <<<<" ", " ", ".", ".", ".", " ", "a", "n", "d", " ", "m", "o", "r", "e">>>> ELSE <<>>)

\* parts.push(block) for every block that is not the empty string
nonEmptyBlocks(blocks) == SelectSeq(blocks, LAMBDA b : b # <<>>)

\* the handler returned undefined before composing anything; searches counts
\* the searchMemories calls of the retrieval step
NoInjection(stage, decided, consulted, calls, remindTime) ==
    [stage |-> stage, decision |-> decided, healthConsulted |-> consulted,
     searches |-> Len(calls), calls |-> calls, injected |-> FALSE, parts |-> <<>>, memories |-> <<>>,
     todoFetched |-> FALSE, lastTodoRemindTime |-> remindTime]

decide_NoPostCompaction(st, p) == preRetrievalDecision(p)

\* const decision = postCompaction ? "force" : preRetrievalDecision(event.prompt)
decide(st, p) ==
    IF st.postCompaction THEN "force" ELSE preRetrievalDecision(p)

\* steps 4 to 6 and the return, from the retrieved memories on
compose(st, env, decided, searches, calls, memories0, skillMemories, prefMemories) ==
    LET memories == filterBySufficiency(memories0,
                        [minLength |-> 20, maxDuplicateOverlap |-> 80])
        hasAny == Len(memories) > 0 \/ Len(skillMemories) > 0 \/ Len(prefMemories) > 0
        contextBlock ==
            formatContextBlock(memories,
                               IF st.postCompaction THEN 12 ELSE 6,
                               IF st.postCompaction THEN 800 ELSE 500,
                               IF st.postCompaction THEN CONTEXT_HEADER_RESTORED
                               ELSE CONTEXT_HEADER)
        skillBlock == formatSkillBlock(skillMemories, IF st.postCompaction THEN 3 ELSE 2)
        prefBlock == formatPrefBlock(prefMemories, IF st.postCompaction THEN 3 ELSE 2)
        due == env.now - st.lastTodoRemindTime > TODO_REMIND_COOLDOWN_MS
        fetch == findTasks(env.taskFetch.tasks, env.taskFetch.updates,
                           [status |-> "pending", priority |-> NULL, project |-> NULL])
        todoReminder == IF due /\ ~fetch.raised THEN formatTaskList(fetch.views) ELSE <<>>
        remindTime == IF due /\ ~fetch.raised THEN env.now ELSE st.lastTodoRemindTime
        allCalls == calls \o (IF due THEN <<"search", "search">> ELSE <<>>)
    IN  IF ~hasAny /\ todoReminder = <<>>
        THEN [stage |-> "nothing", decision |-> decided, healthConsulted |-> TRUE,
              searches |-> searches, calls |-> allCalls, injected |-> FALSE,
              parts |-> <<>>,
              memories |-> memories, todoFetched |-> due,
              lastTodoRemindTime |-> remindTime]
        ELSE [stage |-> "injected", decision |-> decided, healthConsulted |-> TRUE,
              searches |-> searches, calls |-> allCalls, injected |-> TRUE,
              parts |-> nonEmptyBlocks(<<contextBlock, skillBlock, prefBlock,
                                         todoReminder>>),
              memories |-> memories, todoFetched |-> due,
              lastTodoRemindTime |-> remindTime]

\* the calls of rerankMemories: one completion when there are enough candidates
rerankCalls(st, memories) ==
    IF st.rerankerEnabled /\ Len(memories) >= MIN_MEMORIES_TO_RERANK
    THEN <<"chat/complete">> ELSE <<>>

maybeRerank(st, env, memories) ==
    IF st.rerankerEnabled THEN rerankMemories(memories, env.completion).memories
    ELSE memories

\* the enriched mode: two searches, each failing to an empty result
retrieveEnriched(st, env, decided) ==
    LET summaryResult == CatchEmpty(env.summarySearch)
        relevantResult == CatchEmpty(env.relevantSearch)
        merged == mergeText(summaryResult.textMemories \o relevantResult.textMemories,
                            1, {}, <<>>)
    IN  compose(st, env, decided, 2,
                <<"search", "search">> \o rerankCalls(st, merged),
                maybeRerank(st, env, merged),
                summaryResult.skillMemories \o relevantResult.skillMemories,
                summaryResult.prefMemories \o relevantResult.prefMemories)

\* the normal mode: one search; its rejection ends in the handler's catch
retrieveNormal(st, env, decided) ==
    IF ~env.relevantSearch.ok
    THEN NoInjection("error", decided, TRUE, <<"search">>, st.lastTodoRemindTime)
    ELSE compose(st, env, decided, 1,
                 <<"search">> \o rerankCalls(st, env.relevantSearch.textMemories),
                 maybeRerank(st, env, env.relevantSearch.textMemories),
                 env.relevantSearch.skillMemories,
                 env.relevantSearch.prefMemories)

\* the handler createContextInjectionHandler(state) returns, run on an event
\* with the given p
contextInjection(st, env, p) ==
    IF p = <<>> \/ Len(p) < 5
    THEN NoInjection("guard", NULL, FALSE, <<>>, st.lastTodoRemindTime)
    ELSE IF decide(st, p) = "skip"
    THEN NoInjection("skip", "skip", FALSE, <<>>, st.lastTodoRemindTime)
    ELSE IF ~env.healthy
    THEN NoInjection("unhealthy", decide(st, p), TRUE, <<>>, st.lastTodoRemindTime)
    ELSE IF st.postCompaction
    THEN retrieveEnriched(st, env, decide(st, p))
    ELSE retrieveNormal(st, env, decide(st, p))

NotRun == NoInjection("idle", NULL, FALSE, <<>>, 0)

\* a turn starts: the plugin state, the prompt and what the service will answer
InjectInit ==
    /\ injPrompt \in InjectPrompts
    /\ \E pc \in BOOLEAN, rr \in RerankSettings, healthy \in BOOLEAN,
          last \in LastRemindTimes, summary \in SummaryResults,
          relevant \in RelevantResults, tf \in TaskFetches :
          /\ injState = [postCompaction |-> pc, rerankerEnabled |-> rr.enabled,
                         lastTodoRemindTime |-> last]
          /\ injEnv = [healthy |-> healthy, now |-> InjectNow,
                       summarySearch |-> summary, relevantSearch |-> relevant,
                       completion |-> rr.completion, taskFetch |-> tf]
    /\ injResult = NotRun
    /\ injDone = FALSE

InjectIdle ==
    /\ injPrompt = <<>>
    /\ injState = [postCompaction |-> FALSE, rerankerEnabled |-> FALSE,
                   lastTodoRemindTime |-> 0]
    /\ injEnv = [healthy |-> TRUE, now |-> InjectNow,
                 summarySearch |-> SearchFailed, relevantSearch |-> SearchFailed,
                 completion |-> [ok |-> FALSE, response |-> <<>>],
                 taskFetch |-> [tasks |-> [ok |-> TRUE, memories |-> <<>>],
                                updates |-> [ok |-> TRUE, memories |-> <<>>]]]
    /\ injResult = NotRun
    /\ injDone = FALSE

\* before_agent_start fires and the handler runs to its return
Inject ==
    /\ ~injDone
    /\ injResult' = contextInjection(injState, injEnv, injPrompt)
    /\ injDone' = TRUE
    /\ UNCHANGED <<injPrompt, injState, injEnv, notInjectVars>>

InjectNext == Inject

(***************************************************************************)
(* hooks/compaction-flush: the persistence step of before_compaction       *)
(***************************************************************************)

\* entries summarizeConversation returned for all segments together
MaxEntries == 3

\* the type isDuplicateMemory and markMemoryAdded default to
DefaultType == <<"m", "e", "m", "o", "r", "y">>

\* Date.now() during the flush
FlushNow == DEDUP_WINDOW_MS

\* _recentHashes when the flush starts: empty, or holding the hash of TextA
\* last seen a full window ago (expired) or less than a window ago
FlushCaches ==
    {<<>>}
        \cup {MapSet(<<>>, computeContentHash(TextA, DefaultType),
                     [count |-> 1, lastSeen |-> t]) : t \in {0, 1}}

launchEntries_NoDedup(entries, i, cache, pcs) ==
    [cache |-> cache, pcs |-> [k \in 1..Len(entries) |-> "adding"]]

\* the synchronous part of the map callbacks, entry by entry: a duplicate is
\* skipped, for any other entry addMemoryAwait is called
RECURSIVE launchEntries(_, _, _, _)
launchEntries(entries, i, cache, pcs) ==
    IF i > Len(entries) THEN [cache |-> cache, pcs |-> pcs]
    ELSE LET r == isDuplicateMemory(cache, FlushNow, entries[i], DefaultType)
         IN  launchEntries(entries, i + 1, r.cache,
                           Append(pcs, IF r.ret THEN "skipped" ELSE "adding"))

Count(pcs, what) == Cardinality({i \in 1..Len(pcs) : pcs[i] = what})

\* Promise.all would settle on the first rejection
allSettled_FirstRejection(pcs) ==
    \/ \A i \in 1..Len(pcs) : pcs[i] \in {"saved", "skipped", "failed"}
    \/ \E i \in 1..Len(pcs) : pcs[i] = "failed"

\* Promise.allSettled: every callback has returned
allSettled(pcs) == \A i \in 1..Len(pcs) : pcs[i] \in {"saved", "skipped", "failed"}

NoTally == [saved |-> 0, failed |-> 0, skipped |-> 0]

\* the handler has reached line 90 with at least one entry
FlushInit ==
    /\ \E n \in 1..MaxEntries : \E es \in [1..n -> Texts] : flushEntries = es
    /\ flushPcs = [i \in 1..Len(flushEntries) |-> "pending"]
    /\ flushTally = NoTally
    /\ flushStage = "persist"
    /\ compactionCount = 0
    /\ flushSummaries = <<>>
    /\ recentHashes \in FlushCaches
    /\ now = FlushNow
    /\ markLog = [h \in Hashes |-> [marked |-> FALSE, at |-> 0, fresh |-> FALSE]]
    /\ lastCall = NoCall
    /\ ncalls = 0

FlushIdle ==
    /\ flushEntries = <<>>
    /\ flushPcs = <<>>
    /\ flushTally = NoTally
    /\ flushStage = "idle"
    /\ compactionCount = 0
    /\ flushSummaries = <<>>

\* allEntries.map(async (entry) => ...) runs every callback up to its await
LaunchEntries ==
    /\ flushStage = "persist"
    /\ LET r == launchEntries(flushEntries, 1, recentHashes, <<>>)
       IN  /\ recentHashes' = r.cache
           /\ flushPcs' = r.pcs
           /\ flushTally' = [flushTally EXCEPT !.skipped = Count(r.pcs, "skipped")]
    /\ flushStage' = "awaiting"
    /\ UNCHANGED <<flushEntries, compactionCount, flushSummaries>>
    /\ UNCHANGED <<now, markLog, lastCall, ncalls, notFlushVars>>

\* addMemoryAwait of entry i resolves
AddResolves(i) ==
    /\ flushStage = "awaiting"
    /\ flushPcs[i] = "adding"
    /\ recentHashes' = markMemoryAdded(recentHashes, FlushNow, flushEntries[i], DefaultType)
    /\ flushPcs' = [flushPcs EXCEPT ![i] = "saved"]
    /\ flushTally' = [flushTally EXCEPT !.saved = @ + 1]
    /\ UNCHANGED <<flushEntries, flushStage, compactionCount, flushSummaries>>
    /\ UNCHANGED <<now, markLog, lastCall, ncalls, notFlushVars>>

\* addMemoryAwait of entry i rejects (callApi gave up)
AddRejects(i) ==
    /\ flushStage = "awaiting"
    /\ flushPcs[i] = "adding"
    /\ flushPcs' = [flushPcs EXCEPT ![i] = "failed"]
    /\ flushTally' = [flushTally EXCEPT !.failed = @ + 1]
    /\ UNCHANGED <<flushEntries, flushStage, compactionCount, flushSummaries>>
    /\ UNCHANGED <<recentHashes, now, markLog, lastCall, ncalls, notFlushVars>>

\* the await of line 93 returns: the counter and the meta-record
IssueSummary ==
    /\ flushStage = "awaiting"
    /\ allSettled(flushPcs)
    /\ compactionCount' = compactionCount + 1
    /\ flushSummaries' =
           Append(flushSummaries,
                  [type |-> "compaction_summary",
                   compaction_number |-> compactionCount + 1,
                   entries_saved |-> flushTally.saved,
                   entries_failed |-> flushTally.failed,
                   entries_skipped |-> flushTally.skipped,
                   settled |-> Count(flushPcs, "saved") + Count(flushPcs, "skipped")
                                   + Count(flushPcs, "failed")])
    /\ flushStage' = "done"
    /\ UNCHANGED <<flushEntries, flushPcs, flushTally>>
    /\ UNCHANGED <<recentHashes, now, markLog, lastCall, ncalls, notFlushVars>>

FlushNext ==
    \/ LaunchEntries
    \/ \E i \in 1..Len(flushEntries) : AddResolves(i)
    \/ \E i \in 1..Len(flushEntries) : AddRejects(i)
    \/ IssueSummary

(***************************************************************************)
(* The paths that reach the service: the lifecycle hooks and the task      *)
(* tools, each with the isHealthy consultation it makes (or not) and the   *)
(* endpoints it calls                                                      *)
(***************************************************************************)

THROTTLE_MS == 300000

SKILL_EXTRACTION_COOLDOWN_MS == 600000

\* handleToolTrace extracts a skill only when durationMs > 500
SKILL_MIN_DURATION_MS == 500

\* extractSkillFromTool: durationMs < 1000 with short params is not significant
SIGNIFICANT_DURATION_MS == 1000

\* before_compaction: fewer messages are not summarized
FLUSH_MIN_MESSAGES == 4

\* memories one extraction or summarization yields
MaxFacts == 2

\* what a path did: whether it consulted isHealthy and the endpoints it called
PathRun(path, input, consulted, calls) ==
    [path |-> path, input |-> input, healthConsulted |-> consulted, calls |-> calls]

\* one call per item of a list for which the test holds
RECURSIVE callsFor(_, _, _)
callsFor(items, wanted, endpoint) ==
    IF items = <<>> THEN <<>>
    ELSE (IF Head(items) = wanted THEN <<endpoint>> ELSE <<>>)
             \o callsFor(Tail(items), wanted, endpoint)

\* agent_end events: the guards' inputs, the number of memory types
\* detectRelevantTypes finds (one completion each), and for each memory
\* extracted whether the dedup cache knows it
FactEvents ==
    {ev \in [success : BOOLEAN, messages : {1, 2}, postCompaction : BOOLEAN,
             sinceLastRun : {THROTTLE_MS - 1, THROTTLE_MS}, types : 0..2,
             facts : UNION {[1..n -> {"new", "dup"}] : n \in 0..MaxFacts}] :
        ev.types = 0 => ev.facts = <<>>}

\* the handler createFactExtractionHandler(state) returns
factExtraction(ev) ==
    IF ~ev.success \/ ev.messages < 2 THEN PathRun("agent_end", ev, FALSE, <<>>)
    ELSE IF ev.postCompaction THEN PathRun("agent_end", ev, FALSE, <<>>)
    ELSE IF ev.sinceLastRun < THROTTLE_MS THEN PathRun("agent_end", ev, FALSE, <<>>)
    ELSE PathRun("agent_end", ev, FALSE,
                 [k \in 1..ev.types |-> "chat/complete"]
                     \o callsFor(ev.facts, "new", "add"))

SIMPLE_TOOLS ==
    {<<"p", "r", "o", "x", "y", "_", "r", "e", "a", "d">>,
     <<"p", "r", "o", "x", "y", "_", "m", "e", "s", "s", "a", "g", "e">>,
     <<"p", "r", "o", "x", "y", "_", "t", "t", "s">>,
     <<"p", "r", "o", "x", "y", "_", "w", "e", "b", "_", "s", "e", "a", "r", "c", "h">>,
     <<"p", "r", "o", "x", "y", "_", "s", "e", "s", "s", "i", "o", "n", "_", "s", "t", "a", "t", "u", "s">>,
     <<"p", "r", "o", "x", "y", "_", "s", "e", "s", "s", "i", "o", "n", "s", "_", "l", "i", "s", "t">>,
     <<"p", "r", "o", "x", "y", "_", "c", "r", "o", "n">>}

\* tool_result_persist events, with what the skill extraction depends on
TraceEvents ==
    [event : ToolEvents, sinceLastExtraction : {SKILL_EXTRACTION_COOLDOWN_MS,
                                                SKILL_EXTRACTION_COOLDOWN_MS + 1},
     significantParams : BOOLEAN, isSkill : BOOLEAN]

\* the completion call of extractSkillFromTool, when it is made
skillExtractionCalls(ev) ==
    IF ev.event.toolName \in SIMPLE_TOOLS THEN <<>>
    ELSE IF DigitsValue(ev.event.durationMs) < SIGNIFICANT_DURATION_MS
            /\ ~ev.significantParams
    THEN <<>>
    ELSE <<"chat/complete">> \o (IF ev.isSkill THEN <<"add">> ELSE <<>>)

handleToolTrace(ev) ==
    IF ~Traced(ev.event) THEN PathRun("tool_result_persist", ev, FALSE, <<>>)
    ELSE PathRun("tool_result_persist", ev, FALSE,
                 <<"add">>
                     \o (IF ~ev.event.error /\ ev.event.message # <<>>
                            /\ DigitsValue(ev.event.durationMs) > SKILL_MIN_DURATION_MS
                            /\ ev.sinceLastExtraction > SKILL_EXTRACTION_COOLDOWN_MS
                         THEN skillExtractionCalls(ev) ELSE <<>>))

\* before_compaction events: the number of messages, for each segment whether
\* its transcript is long enough to be summarized, and for each entry
\* whether the dedup cache knows it
CompactionEvents ==
    {ev \in [messages : {FLUSH_MIN_MESSAGES - 1, FLUSH_MIN_MESSAGES},
             segments : UNION {[1..n -> {"summarized", "short"}] : n \in 1..2},
             entries : UNION {[1..n -> {"new", "dup"}] : n \in 0..MaxFacts}] :
        (\A k \in 1..Len(ev.segments) : ev.segments[k] = "short") => ev.entries = <<>>}

\* the handler createBeforeCompactionHandler(state) returns
beforeCompaction(healthy, ev) ==
    IF ev.messages < FLUSH_MIN_MESSAGES THEN PathRun("before_compaction", ev, FALSE, <<>>)
    ELSE IF ~healthy THEN PathRun("before_compaction", ev, TRUE, <<>>)
    ELSE PathRun("before_compaction", ev, TRUE,
                 callsFor(ev.segments, "summarized", "chat/complete")
                     \o callsFor(ev.entries, "new", "add")
                     \o (IF ev.entries # <<>> THEN <<"add">> ELSE <<>>))

\* the turns of the injection path: the plugin state, what the service answers
\* and the prompt
InjectionEvents ==
    {[state |-> [postCompaction |-> pc, rerankerEnabled |-> FALSE,
                 lastTodoRemindTime |-> last],
      env |-> [healthy |-> healthy, now |-> InjectNow,
               summarySearch |-> SearchResult(<<>>, <<>>, <<>>),
               relevantSearch |-> relevant,
               completion |-> [ok |-> FALSE, response |-> <<>>],
               taskFetch |-> [tasks |-> [ok |-> TRUE, memories |-> <<>>],
                              updates |-> [ok |-> TRUE, memories |-> <<>>]]],
      prompt |-> p] :
        pc \in BOOLEAN, last \in LastRemindTimes, healthy \in BOOLEAN,
        relevant \in {SearchFailed, SearchResult(<<InMemory(TextDeploy)>>, <<>>, <<>>)},
        p \in {PromptGo, PromptHello, PromptStaging}}

\* before_agent_start
beforeAgentStart(ev) ==
    PathRun("before_agent_start", ev,
            contextInjection(ev.state, ev.env, ev.prompt).healthConsulted,
            contextInjection(ev.state, ev.env, ev.prompt).calls)

\* memos_create_task: createTask, which skips a title created recently
createTaskTool(duplicate) ==
    PathRun("memos_create_task", duplicate, FALSE,
            IF duplicate THEN <<>> ELSE <<"add">>)

\* memos_complete_task: completeTask
completeTaskTool(withOutcome) ==
    PathRun("memos_complete_task", withOutcome, FALSE, <<"add">>)

\* memos_list_tasks: findTasks and its two searches
listTasksTool(filter) ==
    PathRun("memos_list_tasks", filter, FALSE, <<"search", "search">>)

NoPath == PathRun("idle", FALSE, FALSE, <<>>)

\* the service is up or down when a hook fires or a tool is called
HookInit ==
    /\ hookHealthy \in BOOLEAN
    /\ hookRun = NoPath
    /\ hookDone = FALSE

HookIdle ==
    /\ hookHealthy = TRUE
    /\ hookRun = NoPath
    /\ hookDone = FALSE

\* one path runs and records what it did
Ran(run) ==
    /\ ~hookDone
    /\ hookRun' = run
    /\ hookDone' = TRUE
    /\ UNCHANGED <<hookHealthy, notHookVars>>

AgentEnd == \E ev \in FactEvents : Ran(factExtraction(ev))

ToolResultPersist == \E ev \in TraceEvents : Ran(handleToolTrace(ev))

BeforeCompaction == \E ev \in CompactionEvents : Ran(beforeCompaction(hookHealthy, ev))

BeforeAgentStart ==
    \E ev \in InjectionEvents :
        ev.env.healthy = hookHealthy /\ Ran(beforeAgentStart(ev))

CreateTaskTool == \E duplicate \in BOOLEAN : Ran(createTaskTool(duplicate))

CompleteTaskTool == \E withOutcome \in BOOLEAN : Ran(completeTaskTool(withOutcome))

ListTasksTool == \E filter \in Filters : Ran(listTasksTool(filter))

HookNext ==
    \/ AgentEnd
    \/ ToolResultPersist
    \/ BeforeCompaction
    \/ BeforeAgentStart
    \/ CreateTaskTool
    \/ CompleteTaskTool
    \/ ListTasksTool

(***************************************************************************)
(* post-compaction mode and the agent_end fact-extraction handler, step by *)
(* step: the synchronous entry, the awaited extraction, the fire-and-forget*)
(* writes                                                                  *)
(***************************************************************************)

POST_COMPACTION_WINDOW_MS == 120000

\* agent_end, after_compaction and before_agent_start events in one behaviour
MaxEvents == 3

\* Date.now() when the behaviour starts
ExtractStart == 1000000

\* the instants of the behaviour: both sides of the post-compaction window's
\* end and of the throttle's end
ExtractInstants ==
    {ExtractStart, ExtractStart + 1,
     ExtractStart + POST_COMPACTION_WINDOW_MS - 1,
     ExtractStart + POST_COMPACTION_WINDOW_MS,
     ExtractStart + THROTTLE_MS - 1, ExtractStart + THROTTLE_MS,
     ExtractStart + THROTTLE_MS + 1}

\* mem.type || "fact"
FactType == <<"f", "a", "c", "t">>

\* what extractAllTypedMemories resolves to: up to MaxFacts memories (none
\* when every completion failed or was unparseable)
ExtractedLists == UNION {[1..n -> {TextA, TextAVariant}] : n \in 0..MaxFacts}

AgentEndEvents == [success : BOOLEAN, messages : {1, 2}, flat : {1, 2}]

isPostCompaction_InclusiveWindow(lct, t) ==
    lct > 0 /\ t - lct <= POST_COMPACTION_WINDOW_MS

\* state.isPostCompaction() at time t
isPostCompaction(lct, t) ==
    lct > 0 /\ t - lct < POST_COMPACTION_WINDOW_MS

stampRun_NotAtEntry(t, last) == last

\* lastRunTime = now, before the first await of the handler
stampRun(t, last) == t

factExtractionEntry_ThrottleFirst(ev, post, t, last) ==
    IF ~ev.success \/ ev.messages < 2
    THEN [outcome |-> "guard", lastRunTime |-> last]
    ELSE IF t - last < THROTTLE_MS
    THEN [outcome |-> "throttled", lastRunTime |-> last]
    ELSE IF post
    THEN [outcome |-> "post-compaction", lastRunTime |-> stampRun(t, last)]
    ELSE IF ev.flat < 2
    THEN [outcome |-> "empty", lastRunTime |-> stampRun(t, last)]
    ELSE [outcome |-> "run", lastRunTime |-> stampRun(t, last)]

\* the handler up to its first await: how it leaves, and lastRunTime
factExtractionEntry(ev, post, t, last) ==
    IF ~ev.success \/ ev.messages < 2
    THEN [outcome |-> "guard", lastRunTime |-> last]
    ELSE IF post
    THEN [outcome |-> "post-compaction", lastRunTime |-> last]
    ELSE IF t - last < THROTTLE_MS
    THEN [outcome |-> "throttled", lastRunTime |-> last]
    ELSE IF ev.flat < 2
    THEN [outcome |-> "empty", lastRunTime |-> stampRun(t, last)]
    ELSE [outcome |-> "run", lastRunTime |-> stampRun(t, last)]

\* the loop over the extracted memories: isDuplicateMemory, then addMemory
\* (not awaited) and markMemoryAdded; the cache left, the writes launched and
\* the memories skipped
RECURSIVE saveExtracted(_, _, _, _)
saveExtracted(cache, t, memories, run) ==
    IF memories = <<>> THEN [cache |-> cache, writes |-> <<>>, skips |-> <<>>]
    ELSE LET contentText == Head(memories)
             hash == computeContentHash(contentText, FactType)
             dup == isDuplicateMemory(cache, t, contentText, FactType)
         IN  IF dup.ret
             THEN LET rest == saveExtracted(dup.cache, t, Tail(memories), run)
                  IN  [rest EXCEPT !.skips = <<[hash |-> hash, run |-> run]>> \o @]
             ELSE LET rest == saveExtracted(
                                  markMemoryAdded(dup.cache, t, contentText, FactType),
                                  t, Tail(memories), run)
                  IN  [rest EXCEPT !.writes =
                           <<[hash |-> hash, run |-> run, status |-> "inflight"]>> \o @]

NoEvent == [hook |-> NULL, at |-> 0, since |-> -1, post |-> FALSE, outcome |-> NULL]

ExtractInit ==
    /\ lastCompactionTime = 0
    /\ compactedAt = -1
    /\ lastRunTime = 0
    /\ exRuns = <<>>
    /\ exWrites = <<>>
    /\ exSkips = <<>>
    /\ exLog = NoEvent
    /\ exEvents = 0
    /\ recentHashes = <<>>
    /\ now = ExtractStart
    /\ markLog = [h \in Hashes |-> [marked |-> FALSE, at |-> 0, fresh |-> FALSE]]
    /\ lastCall = NoCall
    /\ ncalls = 0

ExtractIdle ==
    /\ lastCompactionTime = 0
    /\ compactedAt = -1
    /\ lastRunTime = 0
    /\ exRuns = <<>>
    /\ exWrites = <<>>
    /\ exSkips = <<>>
    /\ exLog = NoEvent
    /\ exEvents = 0

\* time passes
ExtractTick(t) ==
    /\ t > now
    /\ now' = t
    /\ UNCHANGED <<recentHashes, markLog, lastCall, ncalls, extractVars, notExtractVars>>

\* the after_compaction handler
AfterCompaction ==
    /\ exEvents < MaxEvents
    /\ exEvents' = exEvents + 1
    /\ lastCompactionTime' = now
    /\ compactedAt' = now
    /\ exLog' = [hook |-> "after_compaction", at |-> now, since |-> now,
                 post |-> isPostCompaction(now, now), outcome |-> NULL]
    /\ UNCHANGED <<lastRunTime, exRuns, exWrites, exSkips, dedupVars, notExtractVars>>

\* the before_agent_start handler, up to its retrieval decision
DecideRetrieval(p) ==
    /\ exEvents < MaxEvents
    /\ exEvents' = exEvents + 1
    /\ Len(p) >= 5
    /\ LET post == isPostCompaction(lastCompactionTime, now)
       IN  exLog' = [hook |-> "before_agent_start", at |-> now, since |-> compactedAt,
                     post |-> post,
                     outcome |-> decide([postCompaction |-> post], p)]
    /\ UNCHANGED <<lastCompactionTime, compactedAt, lastRunTime, exRuns, exWrites,
                   exSkips, dedupVars, notExtractVars>>

\* the agent_end handler, up to its first await
AgentEndEntry(ev) ==
    /\ exEvents < MaxEvents
    /\ exEvents' = exEvents + 1
    /\ LET post == isPostCompaction(lastCompactionTime, now)
           entry == factExtractionEntry(ev, post, now, lastRunTime)
       IN  /\ lastRunTime' = entry.lastRunTime
           /\ exLog' = [hook |-> "agent_end", at |-> now, since |-> compactedAt,
                        post |-> post, outcome |-> entry.outcome]
           /\ exRuns' = IF entry.outcome = "run"
                        THEN Append(exRuns, [start |-> now, pc |-> "extracting"])
                        ELSE exRuns
    /\ UNCHANGED <<lastCompactionTime, compactedAt, exWrites, exSkips, dedupVars,
                   notExtractVars>>

\* await extractAllTypedMemories(text) resolves and the loop runs
ExtractionResolves(i, memories) ==
    /\ i \in 1..Len(exRuns)
    /\ exRuns[i].pc = "extracting"
    /\ LET saved == saveExtracted(recentHashes, now, memories, i)
       IN  /\ recentHashes' = saved.cache
           /\ exWrites' = exWrites \o saved.writes
           /\ exSkips' = exSkips \o saved.skips
    /\ exRuns' = [exRuns EXCEPT ![i].pc = "done"]
    /\ UNCHANGED <<now, markLog, lastCall, ncalls, lastCompactionTime, compactedAt,
                   lastRunTime, exLog, exEvents, notExtractVars>>

\* the /product/add call of one addMemory settles
WriteSettles(k, ok) ==
    /\ k \in 1..Len(exWrites)
    /\ exWrites[k].status = "inflight"
    /\ exWrites' = [exWrites EXCEPT ![k].status = IF ok THEN "ok" ELSE "failed"]
    /\ UNCHANGED <<dedupVars, lastCompactionTime, compactedAt, lastRunTime, exRuns,
                   exSkips, exLog, exEvents, notExtractVars>>

ExtractNext ==
    \/ \E t \in ExtractInstants : ExtractTick(t)
    \/ AfterCompaction
    \/ \E p \in InjectPrompts : DecideRetrieval(p)
    \/ \E ev \in AgentEndEvents : AgentEndEntry(ev)
    \/ \E i \in 1..MaxEvents, memories \in ExtractedLists : ExtractionResolves(i, memories)
    \/ \E k \in 1..(MaxEvents * MaxFacts), ok \in BOOLEAN : WriteSettles(k, ok)

(***************************************************************************)
(* handleToolTrace step by step: the cool-down map recentExecutions, the   *)
(* awaited skill extraction, the update of the map after it                *)
(***************************************************************************)

\* tool completions in one behaviour
MaxCompletions == 3

\* Date.now() when the behaviour starts
SkillStart == 1000000

\* the instants of the behaviour: both sides of the cool-down's end
SkillInstants ==
    {SkillStart, SkillStart + 1, SkillStart + SKILL_EXTRACTION_COOLDOWN_MS,
     SkillStart + SKILL_EXTRACTION_COOLDOWN_MS + 1}

\* two tools that are traced and not simple, and a simple one
SkillTools ==
    {<<"e", "x", "e", "c">>, <<"b", "u", "i", "l", "d">>,
     <<"p", "r", "o", "x", "y", "_", "r", "e", "a", "d">>}

\* tool completions: success is !event.error && event.message, durationMs is
\* Date.now() - startTime, longParams is JSON.stringify(params).length >= 200
Completions ==
    [toolName : SkillTools, success : BOOLEAN,
     durationMs : {SKILL_MIN_DURATION_MS, SKILL_MIN_DURATION_MS + 1, SIGNIFICANT_DURATION_MS},
     longParams : BOOLEAN]

\* recentExecutions.get(toolName) || 0
lastExtractionOf(map, toolName) ==
    IF toolName \in DOMAIN map THEN map[toolName] ELSE 0

\* extractSkillFromTool reaches its completion call
reachesCompletion(ev) ==
    /\ ev.success
    /\ ev.toolName \notin SIMPLE_TOOLS
    /\ ~(ev.durationMs < SIGNIFICANT_DURATION_MS /\ ~ev.longParams)

\* handleToolTrace calls extractSkillFromTool
passesCooldown(map, t, ev) ==
    /\ ev.success
    /\ ev.durationMs > SKILL_MIN_DURATION_MS
    /\ t - lastExtractionOf(map, ev.toolName) > SKILL_EXTRACTION_COOLDOWN_MS

\* recentExecutions after a skill was extracted: set, then the sweep when the
\* map holds more than 100 tools
afterSkill(map, toolName, t) ==
    LET set == MapSet(map, toolName, t)
        cutoff == t - SKILL_EXTRACTION_COOLDOWN_MS
    IN  IF Cardinality(DOMAIN set) > 100
        THEN [k \in {x \in DOMAIN set : ~(set[x] < cutoff)} |-> set[k]]
        ELSE set

SkillInit ==
    /\ recentExecutions = <<>>
    /\ skillNow = SkillStart
    /\ skillAttempts = <<>>
    /\ skillSaved = 0
    /\ completions = 0

SkillIdle == SkillInit

\* time passes
SkillTick(t) ==
    /\ t > skillNow
    /\ skillNow' = t
    /\ UNCHANGED <<recentExecutions, skillAttempts, skillSaved, completions, notSkillVars>>

\* handleToolTrace up to the await of the completion call
ToolCompleted(ev) ==
    /\ completions < MaxCompletions
    /\ completions' = completions + 1
    /\ skillAttempts' =
           IF passesCooldown(recentExecutions, skillNow, ev) /\ reachesCompletion(ev)
           THEN Append(skillAttempts,
                       [toolName |-> ev.toolName, at |-> skillNow, pc |-> "awaiting"])
           ELSE skillAttempts
    /\ UNCHANGED <<recentExecutions, skillNow, skillSaved, notSkillVars>>

\* the completion call settles: a skill (saved, and the tool stamped with the
\* instant the handler started), or none (not a skill, unparseable, failed)
SkillResolves(i, isSkill) ==
    /\ i \in 1..Len(skillAttempts)
    /\ skillAttempts[i].pc = "awaiting"
    /\ skillAttempts' = [skillAttempts EXCEPT ![i].pc = "done"]
    /\ recentExecutions' =
           IF isSkill
           THEN afterSkill(recentExecutions, skillAttempts[i].toolName, skillAttempts[i].at)
           ELSE recentExecutions
    /\ skillSaved' = IF isSkill THEN skillSaved + 1 ELSE skillSaved
    /\ UNCHANGED <<skillNow, completions, notSkillVars>>

SkillNext ==
    \/ \E t \in SkillInstants : SkillTick(t)
    \/ \E ev \in Completions : ToolCompleted(ev)
    \/ \E i \in 1..MaxCompletions, isSkill \in BOOLEAN : SkillResolves(i, isSkill)

(***************************************************************************)
(* lib/health: the cached liveness probe, with callers that interleave at  *)
(* its awaits                                                              *)
(***************************************************************************)

CACHE_TTL_MS == 30000

MAX_RETRIES == 1

\* calls of isHealthy in one behaviour
MaxHealthCalls == 3

\* hooks that may be inside isHealthy at the same time
HealthCallers == {1, 2}

\* Date.now() when the behaviour starts
HealthStart == 1000000

\* the instants of the behaviour: both sides of the TTL's end
HealthInstants ==
    {HealthStart, HealthStart + 1, HealthStart + CACHE_TTL_MS - 1,
     HealthStart + CACHE_TTL_MS, HealthStart + CACHE_TTL_MS + 1}

\* how the HEAD request of _probe ends: a 2xx answer, another status, the
\* abort after PROBE_TIMEOUT_MS, a rejected fetch
ProbeOutcomes == {"ok", "status", "timeout", "unreachable"}

\* _probe(): res.ok, or false from the catch
probe(outcome) == [raised |-> FALSE, ok |-> outcome = "ok"]

cacheFresh_Never(t, checked) == FALSE

\* now - _checkedAt < CACHE_TTL_MS
cacheFresh(t, checked) == t - checked < CACHE_TTL_MS

NotCalling ==
    [pc |-> "idle", start |-> 0, seenCheckedAt |-> 0, seenHealthy |-> FALSE,
     hit |-> FALSE, probes |-> 0, firstOk |-> FALSE, lastOk |-> FALSE,
     result |-> FALSE]

HealthInit ==
    /\ healthyCached = TRUE
    /\ checkedAt = 0
    /\ healthNow = HealthStart
    /\ healthCalls = [c \in HealthCallers |-> NotCalling]
    /\ healthCount = 0
    /\ healthyFrom = "initial"

HealthIdle == HealthInit

\* time passes
HealthTick(t) ==
    /\ t > healthNow
    /\ healthNow' = t
    /\ UNCHANGED <<healthyCached, checkedAt, healthCalls, healthCount, healthyFrom,
                   notHealthVars>>

\* a hook calls isHealthy(): the cached answer, or the first probe is sent
CallIsHealthy(c) ==
    /\ healthCalls[c].pc \in {"idle", "returned", "raised"}
    /\ healthCount < MaxHealthCalls
    /\ healthCount' = healthCount + 1
    /\ healthCalls' = [healthCalls EXCEPT ![c] =
           IF cacheFresh(healthNow, checkedAt)
           THEN [NotCalling EXCEPT !.pc = "returned", !.start = healthNow,
                                   !.seenCheckedAt = checkedAt,
                                   !.seenHealthy = healthyCached,
                                   !.hit = TRUE, !.result = healthyCached]
           ELSE [NotCalling EXCEPT !.pc = "probe", !.start = healthNow,
                                   !.seenCheckedAt = checkedAt,
                                   !.seenHealthy = healthyCached]]
    /\ UNCHANGED <<healthyCached, checkedAt, healthNow, healthyFrom, notHealthVars>>

\* a probe of caller c settles: _healthy is assigned; after a failed first
\* probe the caller sleeps 500 ms, otherwise it records and returns
ProbeSettles(c, outcome) ==
    /\ healthCalls[c].pc = "probe"
    /\ LET call == healthCalls[c]
           p == probe(outcome)
           n == call.probes + 1
       IN  IF p.raised
           THEN /\ healthCalls' = [healthCalls EXCEPT ![c].pc = "raised", ![c].probes = n]
                /\ UNCHANGED <<healthyCached, checkedAt, healthyFrom>>
           ELSE IF ~p.ok /\ n <= MAX_RETRIES
           THEN /\ healthyCached' = p.ok
                /\ healthyFrom' = "first probe"
                /\ healthCalls' = [healthCalls EXCEPT ![c].pc = "sleep", ![c].probes = n,
                                                      ![c].firstOk = p.ok,
                                                      ![c].lastOk = p.ok]
                /\ UNCHANGED checkedAt
           ELSE /\ healthyCached' = p.ok
                /\ healthyFrom' = "completed check"
                /\ checkedAt' = call.start
                /\ healthCalls' = [healthCalls EXCEPT ![c].pc = "returned", ![c].probes = n,
                                      ![c].firstOk = IF n = 1 THEN p.ok ELSE call.firstOk,
                                      ![c].lastOk = p.ok,
                                      ![c].result = p.ok]
    /\ UNCHANGED <<healthNow, healthCount, notHealthVars>>

\* the 500 ms sleep ends and the second probe is sent
RetryProbe(c) ==
    /\ healthCalls[c].pc = "sleep"
    /\ healthCalls' = [healthCalls EXCEPT ![c].pc = "probe"]
    /\ UNCHANGED <<healthyCached, checkedAt, healthNow, healthCount, healthyFrom,
                   notHealthVars>>

HealthNext ==
    \/ \E t \in HealthInstants : HealthTick(t)
    \/ \E c \in HealthCallers : CallIsHealthy(c)
    \/ \E c \in HealthCallers, outcome \in ProbeOutcomes : ProbeSettles(c, outcome)
    \/ \E c \in HealthCallers : RetryProbe(c)

(***************************************************************************)
(* lib/memory: addMemory, the fire-and-forget write, seen from the hook    *)
(* that calls it                                                           *)
(***************************************************************************)

\* addMemoryAwait calls callApi with retries: 3
ADD_RETRIES == 3

\* statements of the calling hook in one behaviour
MaxHookSteps == 3

\* what a hook passes as content: a text, or undefined
FireContents == {[isString |-> TRUE, text |-> TextA], [isString |-> FALSE, text |-> <<>>]}

addMemoryCatch_Rethrow(settled) ==
    [logged |-> 0, surfaced |-> IF settled = "rejected" THEN 1 ELSE 0]

\* the .catch of addMemory on the promise of addMemoryAwait: a rejection is
\* logged, nothing reaches the caller or the host
addMemoryCatch(settled) ==
    [logged |-> IF settled = "rejected" THEN 1 ELSE 0, surfaced |-> 0]

\* addMemoryAwait up to its first await: computeContentHash throws on content
\* that is no string (the promise is rejected), else the request is sent
launchAdd(content) ==
    IF ~content.isString
    THEN [content |-> content, attempt |-> 0, status |-> "rejected"]
    ELSE [content |-> content, attempt |-> 0, status |-> "fetching"]

FireInit ==
    /\ firePc = 0
    /\ fireWrites = <<>>
    /\ fireLogged = 0
    /\ fireSurfaced = 0

FireIdle == FireInit

\* the hook's next statement is addMemory(content, tags): it returns at once
HookCallsAddMemory(content) ==
    /\ firePc < MaxHookSteps
    /\ firePc' = firePc + 1
    /\ LET w == launchAdd(content)
           caught == addMemoryCatch(w.status)
       IN  /\ fireWrites' = Append(fireWrites, w)
           /\ fireLogged' = fireLogged + caught.logged
           /\ fireSurfaced' = fireSurfaced + caught.surfaced
    /\ UNCHANGED notFireVars

\* the hook's next statement is something else
HookContinues ==
    /\ firePc < MaxHookSteps
    /\ firePc' = firePc + 1
    /\ UNCHANGED <<fireWrites, fireLogged, fireSurfaced, notFireVars>>

\* the request of write k is answered: the promise resolves
AddSucceeds(k) ==
    /\ k \in 1..Len(fireWrites)
    /\ fireWrites[k].status = "fetching"
    /\ fireWrites' = [fireWrites EXCEPT ![k].status = "resolved"]
    /\ UNCHANGED <<firePc, fireLogged, fireSurfaced, notFireVars>>

\* the request of write k fails: callApi tries again, or throws after the
\* last attempt and the promise is rejected
AddFails(k) ==
    /\ k \in 1..Len(fireWrites)
    /\ fireWrites[k].status = "fetching"
    /\ IF hasRetryLeft(fireWrites[k].attempt, ADD_RETRIES)
       THEN /\ fireWrites' = [fireWrites EXCEPT ![k].attempt = @ + 1]
            /\ UNCHANGED <<fireLogged, fireSurfaced>>
       ELSE LET caught == addMemoryCatch("rejected")
            IN  /\ fireWrites' = [fireWrites EXCEPT ![k].status = "rejected"]
                /\ fireLogged' = fireLogged + caught.logged
                /\ fireSurfaced' = fireSurfaced + caught.surfaced
    /\ UNCHANGED <<firePc, notFireVars>>

FireNext ==
    \/ \E content \in FireContents : HookCallsAddMemory(content)
    \/ HookContinues
    \/ \E k \in 1..MaxHookSteps : AddSucceeds(k)
    \/ \E k \in 1..MaxHookSteps : AddFails(k)

(***************************************************************************)
(* the before_compaction handler from the event on: the guards, the        *)
(* segmentation, one summarization per segment, then the persistence of    *)
(* the flush                                                               *)
(***************************************************************************)

\* "call the bank monday": 20 characters
TextB ==
    <<"c", "a", "l", "l", " ", "t", "h", "e", " ", "b", "a", "n", "k", " ", "m", "o", "n", "d", "a", "y">>

\* the contents a summarization yields
SummaryTexts == {TextA, TextB}

\* what summarizeConversation resolves to for one segment: up to 2 entries
\* (none when the completion failed or held no JSON array)
SegmentYields == UNION {[1..n -> SummaryTexts] : n \in 0..2}

\* the roles of the messages of an event (each message has a text): turns
\* that alternate, the user alone, a single reply of the assistant
AlternatingRoles(n) == [i \in 1..n |-> IF i % 2 = 1 THEN "user" ELSE "assistant"]

UserRoles(n) == [i \in 1..n |-> "user"]

SingleReplyRoles(n) == [i \in 1..n |-> IF i = 6 THEN "assistant" ELSE "user"]

\* the conversations of the events: 3, 10, 13 and 16 messages
ScenarioConversations ==
    {AlternatingRoles(n) : n \in {3, 10}}
        \cup {UserRoles(n) : n \in {10, 13, 16}}
        \cup {SingleReplyRoles(n) : n \in {10, 13, 16}}

\* the entries whose hash the dedup cache holds, seen less than a window ago
SeenEntries(entries, cache, t) ==
    {i \in 1..Len(entries) :
        LET hash == computeContentHash(entries[i], DefaultType)
        IN  hash \in DOMAIN cache /\ t - cache[hash].lastSeen < DEDUP_WINDOW_MS}

ScenarioInit ==
    /\ \E roles \in ScenarioConversations : bcMessages = Messages(roles)
    /\ bcSegments = <<>>
    /\ bcYields = <<>>
    /\ bcSeen = 0
    /\ bcStage = "event"
    /\ FlushIdle
    /\ recentHashes \in FlushCaches
    /\ now = FlushNow
    /\ markLog = [h \in Hashes |-> [marked |-> FALSE, at |-> 0, fresh |-> FALSE]]
    /\ lastCall = NoCall
    /\ ncalls = 0

ScenarioIdle ==
    /\ bcMessages = <<>>
    /\ bcSegments = <<>>
    /\ bcYields = <<>>
    /\ bcSeen = 0
    /\ bcStage = "idle"

\* the handler up to the first summarization: too few messages or an
\* unhealthy service end it, else the conversation is segmented
BeforeCompactionFires(isHealthyAnswer) ==
    /\ bcStage = "event"
    /\ IF Len(bcMessages) < FLUSH_MIN_MESSAGES \/ ~isHealthyAnswer
       THEN /\ bcStage' = "skipped"
            /\ UNCHANGED bcSegments
       ELSE /\ bcStage' = "summarizing"
            /\ bcSegments' = segmentConversation(bcMessages, FlushMinSegment,
                                                 FlushMaxSegment)
    /\ UNCHANGED <<bcMessages, bcYields, bcSeen, flushVars, dedupVars, notScenarioVars>>

\* await summarizeConversation(segmentMsgs) of the next segment resolves
SummarizeSegment(entries) ==
    /\ bcStage = "summarizing"
    /\ Len(bcYields) < Len(bcSegments)
    /\ bcYields' = Append(bcYields, Len(entries))
    /\ flushEntries' = flushEntries \o entries
    /\ UNCHANGED <<bcMessages, bcSegments, bcSeen, bcStage>>
    /\ UNCHANGED <<flushPcs, flushTally, flushStage, compactionCount, flushSummaries>>
    /\ UNCHANGED <<dedupVars, notScenarioVars>>

\* the loop over the segments has ended: nothing to persist, or the
\* persistence starts
SummariesDone ==
    /\ bcStage = "summarizing"
    /\ Len(bcYields) = Len(bcSegments)
    /\ IF flushEntries = <<>>
       THEN /\ bcStage' = "skipped"
            /\ UNCHANGED <<bcSeen, flushStage>>
       ELSE /\ bcStage' = "persisting"
            /\ bcSeen' = Cardinality(SeenEntries(flushEntries, recentHashes, now))
            /\ flushStage' = "persist"
    /\ flushPcs' = [i \in 1..Len(flushEntries) |-> "pending"]
    /\ UNCHANGED <<bcMessages, bcSegments, bcYields>>
    /\ UNCHANGED <<flushEntries, flushTally, compactionCount, flushSummaries>>
    /\ UNCHANGED <<dedupVars, notScenarioVars>>

ScenarioNext ==
    \/ \E isHealthyAnswer \in BOOLEAN : BeforeCompactionFires(isHealthyAnswer)
    \/ \E entries \in SegmentYields : SummarizeSegment(entries)
    \/ SummariesDone
    \/ LaunchEntries
    \/ \E i \in 1..Len(flushEntries) : AddResolves(i)
    \/ \E i \in 1..Len(flushEntries) : AddRejects(i)
    \/ IssueSummary

(***************************************************************************)
(* the five lifecycle hooks as failure boundaries: what each returns to    *)
(* the host when steps of it fail                                          *)
(***************************************************************************)

\* how a call of the service ends: answered, the service down, the timer
\* aborting it, a completion that cannot be parsed
StepOutcomes == {"ok", "outage", "timeout", "malformed"}

\* how a write (addMemory, addMemoryAwait) ends
WriteOutcomes == {"ok", "failed"}

\* the steps of one hook run: one outcome per completion call (a memory type,
\* a segment), one per write of what the completion yielded
StepLists(outcomes) == UNION {[1..n -> outcomes] : n \in 1..MaxFacts}

\* the indices whose completion was answered and whose write succeeded
SavedOf(answers, writes) ==
    {k \in 1..Len(answers) : answers[k] = "ok" /\ writes[k] = "ok"}

\* the indices at which something failed
FailedOf(answers, writes) ==
    {k \in 1..Len(answers) : answers[k] # "ok" \/ writes[k] # "ok"}

failureBoundary_Rethrow(threw) == threw

\* try { ... } catch (err) { console.warn(...) } around the body of a
\* handler: whether an error thrown in the body reaches the host
failureBoundary(threw) == FALSE

HookResult(hook, input, failed, blocked, threw, injected, saved) ==
    [hook |-> hook, input |-> input, failed |-> failed, blocked |-> blocked,
     raised |-> failureBoundary(threw), injected |-> injected, saved |-> saved]

\* turns of before_agent_start with a failing probe and failing searches
BoundaryTurns ==
    {[state |-> [postCompaction |-> pc, rerankerEnabled |-> FALSE,
                 lastTodoRemindTime |-> InjectNow],
      env |-> [healthy |-> healthy, now |-> InjectNow,
               summarySearch |-> summary,
               relevantSearch |-> relevant,
               completion |-> [ok |-> FALSE, response |-> <<>>],
               taskFetch |-> [tasks |-> [ok |-> TRUE, memories |-> <<>>],
                              updates |-> [ok |-> TRUE, memories |-> <<>>]]],
      prompt |-> PromptStaging] :
        pc \in BOOLEAN, healthy \in BOOLEAN,
        summary \in {SearchFailed, SearchResult(<<InMemory(TextDeploy)>>, <<>>, <<>>)},
        relevant \in {SearchFailed, SearchResult(<<InMemory(TextLongA)>>, <<>>, <<>>)}}

\* before_agent_start: the probe, the searches, the outer catch
hookBeforeAgentStart(ev) ==
    LET run == contextInjection(ev.state, ev.env, ev.prompt)
        reached == run.stage \notin {"guard", "skip"}
        failedSummary == ev.env.healthy /\ ev.state.postCompaction /\ ~ev.env.summarySearch.ok
        failedRelevant == ev.env.healthy /\ ~ev.env.relevantSearch.ok
    IN  HookResult("before_agent_start", ev,
                   reached /\ (~ev.env.healthy \/ failedSummary \/ failedRelevant),
                   reached /\ (~ev.env.healthy
                               \/ (failedRelevant /\ ~ev.state.postCompaction)
                               \/ (failedRelevant /\ failedSummary)),
                   run.stage = "error", run.injected, 0)

AgentEndRuns ==
    {ev \in [completions : StepLists(StepOutcomes), writes : StepLists(WriteOutcomes)] :
        Len(ev.completions) = Len(ev.writes)}

\* agent_end past its guards: one completion per memory type, each in its own
\* try/catch, then one fire-and-forget write per memory extracted
hookAgentEnd(ev) ==
    HookResult("agent_end", ev,
               FailedOf(ev.completions, ev.writes) # {},
               \A k \in 1..Len(ev.completions) : ev.completions[k] # "ok",
               FALSE, FALSE,
               Cardinality(SavedOf(ev.completions, ev.writes)))

BeforeCompactionRuns ==
    {ev \in [healthy : BOOLEAN, completions : StepLists(StepOutcomes),
             writes : StepLists(WriteOutcomes), summary : WriteOutcomes] :
        Len(ev.completions) = Len(ev.writes)}

\* before_compaction past the message count: the probe, one summarization
\* per segment (a failed one yields no entry), the awaited writes, each in
\* its own try/catch, then the summary record when there were entries
hookBeforeCompaction(ev) ==
    LET entries == {k \in 1..Len(ev.completions) : ev.completions[k] = "ok"}
        saved == Cardinality(SavedOf(ev.completions, ev.writes))
    IN  IF ~ev.healthy
        THEN HookResult("before_compaction", ev, TRUE, TRUE, FALSE, FALSE, 0)
        ELSE HookResult("before_compaction", ev,
                        \/ \E k \in 1..Len(ev.completions) : ev.completions[k] # "ok"
                        \/ \E k \in entries : ev.writes[k] # "ok"
                        \/ entries # {} /\ ev.summary # "ok",
                        entries = {},
                        FALSE, FALSE,
                        saved + (IF entries # {} /\ ev.summary = "ok" THEN 1 ELSE 0))

\* after_compaction calls nothing
hookAfterCompaction ==
    HookResult("after_compaction", FALSE, FALSE, FALSE, FALSE, FALSE, 0)

ToolTraceRuns ==
    [trace : WriteOutcomes, extraction : StepOutcomes \cup {"not attempted"},
     skill : WriteOutcomes]

\* tool_result_persist for a traced tool: the fire-and-forget trace, the
\* skill extraction in its try/catch, the fire-and-forget write of the skill
hookToolTrace(ev) ==
    HookResult("tool_result_persist", ev,
               \/ ev.trace # "ok"
               \/ ev.extraction \notin {"ok", "not attempted"}
               \/ ev.extraction = "ok" /\ ev.skill # "ok",
               FALSE, FALSE, FALSE,
               (IF ev.trace = "ok" THEN 1 ELSE 0)
                   + (IF ev.extraction = "ok" /\ ev.skill = "ok" THEN 1 ELSE 0))

NoHookRun ==
    [hook |-> "idle", input |-> FALSE, failed |-> FALSE, blocked |-> FALSE,
     raised |-> FALSE, injected |-> FALSE, saved |-> 0]

BoundaryInit ==
    /\ boundaryRun = NoHookRun
    /\ boundaryDone = FALSE

BoundaryIdle == BoundaryInit

\* the host fires one event and the handler runs to its end
Fired(result) ==
    /\ ~boundaryDone
    /\ boundaryRun' = result
    /\ boundaryDone' = TRUE
    /\ UNCHANGED notBoundaryVars

FireBeforeAgentStart == \E ev \in BoundaryTurns : Fired(hookBeforeAgentStart(ev))

FireAgentEnd == \E ev \in AgentEndRuns : Fired(hookAgentEnd(ev))

FireBeforeCompaction == \E ev \in BeforeCompactionRuns : Fired(hookBeforeCompaction(ev))

FireAfterCompaction == Fired(hookAfterCompaction)

FireToolResultPersist == \E ev \in ToolTraceRuns : Fired(hookToolTrace(ev))

BoundaryNext ==
    \/ FireBeforeAgentStart
    \/ FireAgentEnd
    \/ FireBeforeCompaction
    \/ FireAfterCompaction
    \/ FireToolResultPersist

(***************************************************************************)
(* lib/typed-extraction: extractAllTypedMemories over the detected types   *)
(***************************************************************************)

\* what detectRelevantTypes tests of a conversation: for each pattern whether
\* it matches, and whether the text is longer than 1000 characters
Conversations ==
    [profile : BOOLEAN, behavior : BOOLEAN, skillWord : BOOLEAN, long : BOOLEAN,
     event : BOOLEAN, taskPhrase : BOOLEAN, taskUser : BOOLEAN]

\* the categories other than the generic fact that a conversation matches
matchedTypes(text) ==
    (IF text.profile THEN <<"profile">> ELSE <<>>)
        \o (IF text.behavior THEN <<"behavior">> ELSE <<>>)
        \o (IF text.skillWord /\ text.long THEN <<"skill">> ELSE <<>>)
        \o (IF text.event THEN <<"event">> ELSE <<>>)
        \o (IF text.taskPhrase \/ text.taskUser THEN <<"task">> ELSE <<>>)

\* detectRelevantTypes(conversationText)
detectRelevantTypes(text) ==
    IF Len(matchedTypes(text)) = 0 THEN <<"fact">> ELSE matchedTypes(text)

\* how the completion of one category ends: an array with a usable item, an
\* array whose items are all dropped by the filter, a response parseJSON
\* cannot read, a transport failure after the retries
CategoryOutcomes == {"items", "filtered", "unparseable", "transport"}

\* extractTypedMemories(type, text) given how the completion ended: the catch
\* and the Array.isArray test both give []
extractTypedMemories(type, outcome) ==
    IF outcome = "items" THEN <<[type |-> type, content |-> TextA]>> ELSE <<>>

nextCategory_StopOnFailure(i, n, outcome) ==
    IF outcome \in {"unparseable", "transport"} THEN n + 1 ELSE i + 1

\* the for loop of extractAllTypedMemories goes on to the next type whatever
\* the extraction of this one gave
nextCategory(i, n, outcome) == i + 1

TypedInit ==
    /\ typedText \in Conversations
    /\ relevantTypes = <<>>
    /\ typedIndex = 0
    /\ typedOutcomes = <<>>
    /\ allMemories = <<>>
    /\ typedReturned = FALSE

TypedIdle ==
    /\ typedText = [profile |-> FALSE, behavior |-> FALSE, skillWord |-> FALSE,
                    long |-> FALSE, event |-> FALSE, taskPhrase |-> FALSE,
                    taskUser |-> FALSE]
    /\ relevantTypes = <<>>
    /\ typedIndex = 0
    /\ typedOutcomes = <<>>
    /\ allMemories = <<>>
    /\ typedReturned = FALSE

\* extractAllTypedMemories is called: the types are detected and the
\* extraction of the first one is awaited
CallExtractAll ==
    /\ typedIndex = 0
    /\ relevantTypes' = detectRelevantTypes(typedText)
    /\ typedIndex' = 1
    /\ UNCHANGED <<typedText, typedOutcomes, allMemories, typedReturned, notTypedVars>>

\* the extraction of the awaited type settles
CategorySettles(outcome) ==
    /\ typedIndex \in 1..Len(relevantTypes)
    /\ typedOutcomes' = Append(typedOutcomes, outcome)
    /\ allMemories' = allMemories
                          \o extractTypedMemories(relevantTypes[typedIndex], outcome)
    /\ typedIndex' = nextCategory(typedIndex, Len(relevantTypes), outcome)
    /\ UNCHANGED <<typedText, relevantTypes, typedReturned, notTypedVars>>

\* the loop is over: allMemories is returned
ReturnAllMemories ==
    /\ typedIndex > Len(relevantTypes)
    /\ typedIndex > 0
    /\ ~typedReturned
    /\ typedReturned' = TRUE
    /\ UNCHANGED <<typedText, relevantTypes, typedIndex, typedOutcomes, allMemories,
                   notTypedVars>>

TypedNext ==
    \/ CallExtractAll
    \/ \E outcome \in CategoryOutcomes : CategorySettles(outcome)
    \/ ReturnAllMemories

(***************************************************************************)
(* lib/task-manager: createTask, completeTask and findTasks against the    *)
(* append-only store                                                       *)
(***************************************************************************)

\* createTask calls when their interleavings are tried
MaxCreateCalls == 3

\* createTask calls and completeTask calls when the status of tasks is followed
MaxTasks == 2

MaxCompleteCalls == 2

\* the instants of the calls: the same second, the next second, the first
\* instant at which an entry of the dedup cache made at the start has expired
TaskStart == 1000000

TaskInstants == {TaskStart, TaskStart + 500, TaskStart + 1000, TaskStart + DEDUP_WINDOW_MS}

\* "buy": with the prefix "TASK: " shorter than 20 characters
TitleShort == <<"b", "u", "y">>

\* titles given to createTask; TextA gives a content of 26 characters
TaskTitles == {TextA, TitleShort}

TaskType == <<"t", "a", "s", "k">>

\* `TASK: ${title}`
taskContent(title) == <<"T", "A", "S", "K", ":", " ">> \o title

\* generateTaskId(): the n-th id generated; the time and the random suffix
\* make the ids differ
generateTaskId(n) == <<"t1", "t2", "t3", "t4">>[n]

\* the ids completeTask is called with: ids createTask generates, and an id
\* no task has
CompletedIds == {"t1", "t9"}

CompleteOutcomes == {NULL, "shipped"}

\* normalizeDate(new Date()): the instant without its milliseconds
normalizeDate(t) == t \div 1000

\* the info createTask writes (priority P2 by default, no project)
creationRecord(taskId, title, t) ==
    [task_id |-> taskId, task_status |-> "pending", priority |-> "P2",
     project |-> NULL, title |-> title, task_created_at |-> normalizeDate(t)]

completionRecord_ReopenWithoutOutcome(taskId, outcome, t) ==
    [task_id |-> taskId,
     task_status |-> IF outcome = NULL THEN "pending" ELSE "done",
     task_completed_at |-> normalizeDate(t), outcome |-> outcome]

\* the info completeTask writes
completionRecord(taskId, outcome, t) ==
    [task_id |-> taskId, task_status |-> "done",
     task_completed_at |-> normalizeDate(t), outcome |-> outcome]

\* the check createTask makes before anything else
createTaskCheck(cache, t, title) ==
    isDuplicateMemory(cache, t, taskContent(title), TaskType)

afterCreateRejected_Mark(cache, t, title) ==
    markMemoryAdded(cache, t, taskContent(title), TaskType)

\* the dedup cache after the write of createTask was rejected: the await
\* raises and markMemoryAdded is not reached
afterCreateRejected(cache, t, title) == cache

\* the orders in which a search can return the records of the store
SearchOrders(records) ==
    {[i \in 1..Len(records) |-> records[f[i]]] : f \in Permutations(1..Len(records))}

\* the ids a findTasks result reports as done
DoneIn(views) == {views[k].taskId : k \in {j \in 1..Len(views) : views[j].task_status = "done"}}

TaskInit ==
    /\ taskRecords = <<>>
    /\ taskUpdates = <<>>
    /\ createLog = <<>>
    /\ completeLog = <<>>
    /\ taskViews = <<>>
    /\ doneSeen = {}
    /\ recentHashes = <<>>
    /\ now = TaskStart
    /\ markLog = [h \in Hashes |-> [marked |-> FALSE, at |-> 0, fresh |-> FALSE]]
    /\ lastCall = NoCall
    /\ ncalls = 0

TaskIdle ==
    /\ taskRecords = <<>>
    /\ taskUpdates = <<>>
    /\ createLog = <<>>
    /\ completeLog = <<>>
    /\ taskViews = <<>>
    /\ doneSeen = {}

\* time passes
TaskTick(t) ==
    /\ t > now
    /\ now' = t
    /\ UNCHANGED <<recentHashes, markLog, lastCall, ncalls, taskVars, notTaskVars>>

\* createTask(title) up to its await: a duplicate returns at once, any other
\* call gets an id and starts its write
CallCreateTask(title) ==
    /\ Len(createLog) < MaxCreateCalls
    /\ LET r == createTaskCheck(recentHashes, now, title)
       IN  /\ recentHashes' = r.cache
           /\ createLog' =
                  Append(createLog,
                         IF r.ret
                         THEN [pc |-> "returned", title |-> title, taskId |-> NULL,
                               task_status |-> "duplicate", startedAt |-> now]
                         ELSE [pc |-> "adding", title |-> title,
                               taskId |-> generateTaskId(Len(createLog) + 1),
                               task_status |-> NULL, startedAt |-> now])
    /\ UNCHANGED <<taskRecords, taskUpdates, completeLog, taskViews, doneSeen>>
    /\ UNCHANGED <<now, markLog, lastCall, ncalls, notTaskVars>>

\* addMemoryAwait of call k resolves: the record is in the store, the content
\* is marked and the task is returned
CreateWriteResolves(k) ==
    /\ k \in 1..Len(createLog)
    /\ createLog[k].pc = "adding"
    /\ taskRecords' = Append(taskRecords,
                             creationRecord(createLog[k].taskId, createLog[k].title,
                                            createLog[k].startedAt))
    /\ recentHashes' = markMemoryAdded(recentHashes, now,
                                       taskContent(createLog[k].title), TaskType)
    /\ createLog' = [createLog EXCEPT ![k].pc = "returned",
                                      ![k].task_status = "pending"]
    /\ UNCHANGED <<taskUpdates, completeLog, taskViews, doneSeen>>
    /\ UNCHANGED <<now, markLog, lastCall, ncalls, notTaskVars>>

\* addMemoryAwait of call k rejects after the retries of callApi: createTask
\* raises to its caller
CreateWriteRejects(k) ==
    /\ k \in 1..Len(createLog)
    /\ createLog[k].pc = "adding"
    /\ recentHashes' = afterCreateRejected(recentHashes, now, createLog[k].title)
    /\ createLog' = [createLog EXCEPT ![k].pc = "raised", ![k].taskId = NULL]
    /\ UNCHANGED <<taskRecords, taskUpdates, completeLog, taskViews, doneSeen>>
    /\ UNCHANGED <<now, markLog, lastCall, ncalls, notTaskVars>>

\* completeTask(taskId, outcome) up to its await
CallCompleteTask(taskId, outcome) ==
    /\ Len(completeLog) < MaxCompleteCalls
    /\ completeLog' = Append(completeLog,
                             [pc |-> "adding",
                              record |-> completionRecord(taskId, outcome, now)])
    /\ UNCHANGED <<taskRecords, taskUpdates, createLog, taskViews, doneSeen>>
    /\ UNCHANGED <<dedupVars, notTaskVars>>

\* the write of completeTask settles: the update record is in the store, or
\* completeTask raises
CompleteWriteSettles(k, ok) ==
    /\ k \in 1..Len(completeLog)
    /\ completeLog[k].pc = "adding"
    /\ completeLog' = [completeLog EXCEPT ![k].pc = IF ok THEN "returned" ELSE "raised"]
    /\ taskUpdates' = IF ok THEN Append(taskUpdates, completeLog[k].record)
                      ELSE taskUpdates
    /\ UNCHANGED <<taskRecords, createLog, taskViews, doneSeen>>
    /\ UNCHANGED <<dedupVars, notTaskVars>>

\* findTasks(): both searches succeed and return every record of their type,
\* in some order; doneSeen keeps the ids reported done before this call
FindTasksReturns ==
    /\ \E tasks \in SearchOrders(taskRecords), updates \in SearchOrders(taskUpdates) :
          taskViews' = findTasks([ok |-> TRUE, memories |-> tasks],
                                 [ok |-> TRUE, memories |-> updates], NoFilter).views
    /\ doneSeen' = doneSeen \cup DoneIn(taskViews)
    /\ UNCHANGED <<taskRecords, taskUpdates, createLog, completeLog>>
    /\ UNCHANGED <<dedupVars, notTaskVars>>

\* createTask calls with the same and with different titles, at instants on
\* both sides of the dedup window, their writes settling in any order
CreateNext ==
    \/ \E t \in TaskInstants : TaskTick(t)
    \/ \E title \in TaskTitles : CallCreateTask(title)
    \/ \E k \in 1..MaxCreateCalls : CreateWriteResolves(k)
    \/ \E k \in 1..MaxCreateCalls : CreateWriteRejects(k)

\* tasks created, completed and listed in any order
TaskNext ==
    \/ TaskTick(TaskStart + 1000)
    \/ Len(createLog) < MaxTasks /\ CallCreateTask(TitleShort)
    \/ \E k \in 1..MaxTasks : CreateWriteResolves(k)
    \/ \E taskId \in CompletedIds, outcome \in CompleteOutcomes :
          CallCompleteTask(taskId, outcome)
    \/ \E k \in 1..MaxCompleteCalls, ok \in BOOLEAN : CompleteWriteSettles(k, ok)
    \/ FindTasksReturns

(***************************************************************************)
(* One compaction seen from the hooks: before_compaction runs to its       *)
(* return, after_compaction stamps the state, agent_end consults it        *)
(***************************************************************************)

\* the instants after the flush: inside the post-compaction window of a
\* compaction stamped at FlushNow, and the first instant outside it
CompactionInstants == {FlushNow + 1, FlushNow + POST_COMPACTION_WINDOW_MS}

\* the before_compaction handler has returned
FlushReturned == bcStage = "skipped" \/ flushStage = "done"

\* the host fires before_compaction, compacts, fires after_compaction; the
\* turns that follow end with agent_end
CompactionNext ==
    \/ ScenarioNext
    \/ FlushReturned /\ AfterCompaction
    \/ lastCompactionTime > 0 /\ \E t \in CompactionInstants : ExtractTick(t)
    \/ lastCompactionTime > 0 /\ \E ev \in AgentEndEvents : AgentEndEntry(ev)

(***************************************************************************)
(* Specifications: one per component, the other components idle            *)
(***************************************************************************)

InitDedup == DedupInit /\ SegIdle /\ FindIdle /\ DecisionIdle /\ RerankIdle /\ FilterIdle /\ CallApiIdle /\ InjectIdle /\ FlushIdle /\ HookIdle /\ ExtractIdle /\ SkillIdle /\ HealthIdle /\ FireIdle /\ ScenarioIdle /\ BoundaryIdle /\ TypedIdle /\ TaskIdle

SpecDedup == InitDedup /\ [][DedupNext]_vars

InitSeg == SegInit /\ DedupIdle /\ FindIdle /\ DecisionIdle /\ RerankIdle /\ FilterIdle /\ CallApiIdle /\ InjectIdle /\ FlushIdle /\ HookIdle /\ ExtractIdle /\ SkillIdle /\ HealthIdle /\ FireIdle /\ ScenarioIdle /\ BoundaryIdle /\ TypedIdle /\ TaskIdle

SpecSeg == InitSeg /\ [][SegNext]_vars

InitFind == FindInit /\ DedupIdle /\ SegIdle /\ DecisionIdle /\ RerankIdle /\ FilterIdle /\ CallApiIdle /\ InjectIdle /\ FlushIdle /\ HookIdle /\ ExtractIdle /\ SkillIdle /\ HealthIdle /\ FireIdle /\ ScenarioIdle /\ BoundaryIdle /\ TypedIdle /\ TaskIdle

SpecFind == InitFind /\ [][FindNext]_vars

InitTaskFilter == TaskFilterInit /\ DedupIdle /\ SegIdle /\ DecisionIdle /\ RerankIdle /\ FilterIdle /\ CallApiIdle /\ InjectIdle /\ FlushIdle /\ HookIdle /\ ExtractIdle /\ SkillIdle /\ HealthIdle /\ FireIdle /\ ScenarioIdle /\ BoundaryIdle /\ TypedIdle /\ TaskIdle

SpecTaskFilter == InitTaskFilter /\ [][TaskFilterNext]_vars

InitDecision == DecisionInit /\ DedupIdle /\ SegIdle /\ FindIdle /\ RerankIdle /\ FilterIdle /\ CallApiIdle /\ InjectIdle /\ FlushIdle /\ HookIdle /\ ExtractIdle /\ SkillIdle /\ HealthIdle /\ FireIdle /\ ScenarioIdle /\ BoundaryIdle /\ TypedIdle /\ TaskIdle

SpecDecision == InitDecision /\ [][DecisionNext]_vars

InitRerank == RerankInit /\ SegIdle /\ FindIdle /\ DecisionIdle /\ DedupIdle /\ FilterIdle /\ CallApiIdle /\ InjectIdle /\ FlushIdle /\ HookIdle /\ ExtractIdle /\ SkillIdle /\ HealthIdle /\ FireIdle /\ ScenarioIdle /\ BoundaryIdle /\ TypedIdle /\ TaskIdle

SpecRerank == InitRerank /\ [][RerankNext]_vars

InitFilter == FilterInit /\ SegIdle /\ FindIdle /\ DecisionIdle /\ RerankIdle /\ DedupIdle /\ CallApiIdle /\ InjectIdle /\ FlushIdle /\ HookIdle /\ ExtractIdle /\ SkillIdle /\ HealthIdle /\ FireIdle /\ ScenarioIdle /\ BoundaryIdle /\ TypedIdle /\ TaskIdle

SpecFilter == InitFilter /\ [][FilterNext]_vars

InitApi == CallApiInit /\ SegIdle /\ FindIdle /\ DecisionIdle /\ RerankIdle /\ FilterIdle /\ DedupIdle /\ InjectIdle /\ FlushIdle /\ HookIdle /\ ExtractIdle /\ SkillIdle /\ HealthIdle /\ FireIdle /\ ScenarioIdle /\ BoundaryIdle /\ TypedIdle /\ TaskIdle

SpecApi == InitApi /\ [][CallApiNext]_vars

InitInject == InjectInit /\ SegIdle /\ FindIdle /\ DecisionIdle /\ RerankIdle /\ FilterIdle /\ CallApiIdle /\ DedupIdle /\ FlushIdle /\ HookIdle /\ ExtractIdle /\ SkillIdle /\ HealthIdle /\ FireIdle /\ ScenarioIdle /\ BoundaryIdle /\ TypedIdle /\ TaskIdle

SpecInject == InitInject /\ [][InjectNext]_vars

InitFlush == FlushInit /\ SegIdle /\ FindIdle /\ DecisionIdle /\ RerankIdle /\ FilterIdle /\ CallApiIdle /\ InjectIdle /\ HookIdle /\ ExtractIdle /\ SkillIdle /\ HealthIdle /\ FireIdle /\ ScenarioIdle /\ BoundaryIdle /\ TypedIdle /\ TaskIdle

SpecFlush == InitFlush /\ [][FlushNext]_vars

InitHook == HookInit /\ SegIdle /\ FindIdle /\ DecisionIdle /\ RerankIdle /\ FilterIdle /\ CallApiIdle /\ InjectIdle /\ FlushIdle /\ DedupIdle /\ ExtractIdle /\ SkillIdle /\ HealthIdle /\ FireIdle /\ ScenarioIdle /\ BoundaryIdle /\ TypedIdle /\ TaskIdle

SpecHook == InitHook /\ [][HookNext]_vars

InitExtract == ExtractInit /\ SegIdle /\ FindIdle /\ DecisionIdle /\ RerankIdle /\ FilterIdle /\ CallApiIdle /\ InjectIdle /\ FlushIdle /\ HookIdle /\ SkillIdle /\ HealthIdle /\ FireIdle /\ ScenarioIdle /\ BoundaryIdle /\ TypedIdle /\ TaskIdle

SpecExtract == InitExtract /\ [][ExtractNext]_vars

InitSkill == SkillInit /\ SegIdle /\ FindIdle /\ DecisionIdle /\ RerankIdle /\ FilterIdle /\ CallApiIdle /\ InjectIdle /\ FlushIdle /\ HookIdle /\ ExtractIdle /\ DedupIdle /\ HealthIdle /\ FireIdle /\ ScenarioIdle /\ BoundaryIdle /\ TypedIdle /\ TaskIdle

SpecSkill == InitSkill /\ [][SkillNext]_vars

InitHealth == HealthInit /\ SegIdle /\ FindIdle /\ DecisionIdle /\ RerankIdle /\ FilterIdle /\ CallApiIdle /\ InjectIdle /\ FlushIdle /\ HookIdle /\ ExtractIdle /\ SkillIdle /\ DedupIdle /\ FireIdle /\ ScenarioIdle /\ BoundaryIdle /\ TypedIdle /\ TaskIdle

SpecHealth == InitHealth /\ [][HealthNext]_vars

InitFire == FireInit /\ SegIdle /\ FindIdle /\ DecisionIdle /\ RerankIdle /\ FilterIdle /\ CallApiIdle /\ InjectIdle /\ FlushIdle /\ HookIdle /\ ExtractIdle /\ SkillIdle /\ HealthIdle /\ DedupIdle /\ ScenarioIdle /\ BoundaryIdle /\ TypedIdle /\ TaskIdle

SpecFire == InitFire /\ [][FireNext]_vars

InitScenario == ScenarioInit /\ SegIdle /\ FindIdle /\ DecisionIdle /\ RerankIdle /\ FilterIdle /\ CallApiIdle /\ InjectIdle /\ HookIdle /\ ExtractIdle /\ SkillIdle /\ HealthIdle /\ FireIdle /\ BoundaryIdle /\ TypedIdle /\ TaskIdle

SpecScenario == InitScenario /\ [][ScenarioNext]_vars

InitBoundary == BoundaryInit /\ SegIdle /\ FindIdle /\ DecisionIdle /\ RerankIdle /\ FilterIdle /\ CallApiIdle /\ InjectIdle /\ FlushIdle /\ HookIdle /\ ExtractIdle /\ SkillIdle /\ HealthIdle /\ FireIdle /\ ScenarioIdle /\ DedupIdle /\ TypedIdle /\ TaskIdle

SpecBoundary == InitBoundary /\ [][BoundaryNext]_vars

InitTyped == TypedInit /\ SegIdle /\ FindIdle /\ DecisionIdle /\ RerankIdle /\ FilterIdle /\ CallApiIdle /\ InjectIdle /\ FlushIdle /\ HookIdle /\ ExtractIdle /\ SkillIdle /\ HealthIdle /\ FireIdle /\ ScenarioIdle /\ BoundaryIdle /\ DedupIdle /\ TaskIdle

SpecTyped == InitTyped /\ [][TypedNext]_vars

InitTask == TaskInit /\ SegIdle /\ FindIdle /\ DecisionIdle /\ RerankIdle /\ FilterIdle /\ CallApiIdle /\ InjectIdle /\ FlushIdle /\ HookIdle /\ ExtractIdle /\ SkillIdle /\ HealthIdle /\ FireIdle /\ ScenarioIdle /\ BoundaryIdle /\ TypedIdle

SpecTask == InitTask /\ [][TaskNext]_vars

SpecCreate == InitTask /\ [][CreateNext]_vars

SpecCompaction == InitScenario /\ [][CompactionNext]_vars

\* ENABLED <<FlushNext>>_vars: the map is still to run, or a callback is still
\* to settle, or the handler is still to resume after the await
FlushEnabled == flushStage \in {"persist", "awaiting"}

\* weak fairness of FlushNext, written out with FlushEnabled for the ENABLED:
\* every addMemoryAwait settles (callApi gives up after its retries) and the
\* handler resumes once Promise.allSettled has resolved
SpecFlushLive == SpecFlush /\ ([]<>(~FlushEnabled) \/ []<><<FlushNext>>_vars)

\* every attempt settles and every back-off timer fires
SpecApiLive == SpecApi /\ WF_vars(CallApiNext)

(***************************************************************************)
(* Claims                                                                  *)
(***************************************************************************)

\* C1 as claimed: for every (text, type), isDuplicateMemory within the window
\* after markMemoryAdded on it returns true, and once the window has elapsed
\* since the mark with no call on that key in between it returns false
DedupIdempotenceAnyText ==
    lastCall.op = "isDuplicateMemory" /\ lastCall.marked
        => /\ lastCall.markAge < DEDUP_WINDOW_MS => lastCall.ret = TRUE
           /\ (lastCall.fresh /\ lastCall.markAge >= DEDUP_WINDOW_MS)
                 => lastCall.ret = FALSE

\* C1 as amended: the same for every text of at least 20 characters
DedupIdempotence ==
    (/\ lastCall.op = "isDuplicateMemory"
     /\ lastCall.marked
     /\ Len(lastCall.text) >= 20)
        => /\ lastCall.markAge < DEDUP_WINDOW_MS => lastCall.ret = TRUE
           /\ (lastCall.fresh /\ lastCall.markAge >= DEDUP_WINDOW_MS)
                 => lastCall.ret = FALSE

\* the entry is still in the cache but the window has elapsed: not a duplicate
DedupExpiredWitness ==
    /\ lastCall.op = "isDuplicateMemory"
    /\ Len(lastCall.text) >= 20
    /\ lastCall.fresh
    /\ lastCall.markAge = DEDUP_WINDOW_MS
    /\ lastCall.ret = FALSE
    /\ computeContentHash(lastCall.text, lastCall.type) \in DOMAIN recentHashes

\* C2 as claimed: for every input of length L >= 0 the segments concatenated
\* equal the input and every segment has at least one message
SegmentationPartitionAnyLength ==
    segDone => /\ Concat(segments) = flat
               /\ \A k \in 1..Len(segments) : Len(segments[k]) >= 1

\* C2 as amended: the segments concatenated always equal the input; every
\* segment has at least one message when the input has one, and the empty
\* input is returned as a single empty segment
SegmentationPartition ==
    segDone => /\ Concat(segments) = flat
               /\ Len(flat) >= 1 => \A k \in 1..Len(segments) : Len(segments[k]) >= 1
               /\ Len(flat) = 0 => segments = << <<>> >>

\* a short tail was merged into the last of several segments
SegmentationMergedTailWitness ==
    /\ segDone
    /\ Len(flat) > segOpts.maxSegment
    /\ Len(segments) >= 2
    /\ Len(segments[Len(segments)]) > segOpts.maxSegment

\* C3: for an input longer than maxSegment every segment but the last has
\* between minSegment and maxSegment messages
SegmentationBounds ==
    (segDone /\ Len(flat) > segOpts.maxSegment)
        => \A k \in 1..(Len(segments) - 1) :
              /\ Len(segments[k]) >= segOpts.minSegment
              /\ Len(segments[k]) <= segOpts.maxSegment

\* a topic-turn cut before maxSegment, and a last segment beyond maxSegment
SegmentationBoundsWitness ==
    /\ segDone
    /\ Len(flat) > segOpts.maxSegment
    /\ Len(segments) >= 2
    /\ \E k \in 1..(Len(segments) - 1) : Len(segments[k]) < segOpts.maxSegment
    /\ Len(segments[Len(segments)]) > segOpts.maxSegment

\* the creation records and the update records the searches returned
FetchedTasks == tasksFetch.memories

FetchedUpdates == updatesFetch.memories

\* the views of the result that carry task id
ViewsOf(result, id) == {k \in 1..Len(result.views) : result.views[k].taskId = id}

\* the fetched records of one task
CreationsOf(id) == {i \in 1..Len(FetchedTasks) : FetchedTasks[i].task_id = id}

UpdatesOf(id) == {j \in 1..Len(FetchedUpdates) : FetchedUpdates[j].task_id = id}

\* the task has a fetched creation record with status pending and fetched
\* update records, all of them with status done (the only status completeTask
\* writes)
PendingThenDone(id) ==
    /\ \E i \in CreationsOf(id) : FetchedTasks[i].task_status = "pending"
    /\ UpdatesOf(id) # {}
    /\ \A j \in UpdatesOf(id) : FetchedUpdates[j].task_status = "done"

\* C4: a task with a pending creation record and a done update record is
\* reported done: findTasks({status: "pending"}) leaves it out, any other call
\* of the model (no filter, status "done") returns one view of it with status
\* done and the completion time and outcome of an update record of the task
ReconcileStatusPrecedence ==
    findDone =>
        \A id \in TaskIds :
            PendingThenDone(id) =>
                IF findFilter.status = "pending"
                THEN ViewsOf(findResult, id) = {}
                ELSE /\ Cardinality(ViewsOf(findResult, id)) = 1
                     /\ \A k \in ViewsOf(findResult, id) :
                           /\ findResult.views[k].task_status = "done"
                           /\ \E j \in UpdatesOf(id) :
                                 /\ findResult.views[k].task_completed_at =
                                        FetchedUpdates[j].task_completed_at
                                 /\ findResult.views[k].outcome = FetchedUpdates[j].outcome

\* findTasks({status: "done"}) returned a task created pending and completed
\* with an outcome
ReconcileStatusPrecedenceWitness ==
    /\ findDone
    /\ findFilter.status = "done"
    /\ \E id \in TaskIds :
          /\ PendingThenDone(id)
          /\ \E k \in ViewsOf(findResult, id) :
                /\ findResult.views[k].task_status = "done"
                /\ findResult.views[k].task_completed_at = 2
                /\ findResult.views[k].outcome = "shipped"

\* the status reported for a task, "absent" when the result has no view of it
StatusOf(result, id) ==
    IF ViewsOf(result, id) = {} THEN "absent"
    ELSE result.views[CHOOSE k \in ViewsOf(result, id) : TRUE].task_status

\* every order in which a search can return the same records
Reorderings(seq) ==
    {[i \in 1..Len(seq) |-> seq[f[i]]] : f \in Permutations(1..Len(seq))}

\* the update records of one task carry pairwise different task_completed_at
\* (a missing one counts as a value)
TimestampsDiffer ==
    \A i, j \in 1..Len(FetchedUpdates) :
        (/\ i # j
         /\ FetchedUpdates[i].task_id = FetchedUpdates[j].task_id)
            => FetchedUpdates[i].task_completed_at # FetchedUpdates[j].task_completed_at

\* C5: when the timestamps of the update records of each task differ, the
\* status findTasks() reports for each task is the same for every order in
\* which the two searches return the same records
ReconcileDeterminism ==
    (findDone /\ findFilter = NoFilter /\ TimestampsDiffer) =>
        \A ts \in Reorderings(FetchedTasks), us \in Reorderings(FetchedUpdates) :
            \A id \in TaskIds :
                StatusOf(findTasks([tasksFetch EXCEPT !.memories = ts],
                                   [updatesFetch EXCEPT !.memories = us], NoFilter), id)
                    = StatusOf(findResult, id)

\* a task with two updates of different status and different timestamps, the
\* later one fetched first
ReconcileDeterminismWitness ==
    /\ findDone
    /\ findFilter = NoFilter
    /\ TimestampsDiffer
    /\ \E id \in TaskIds :
          /\ CreationsOf(id) # {}
          /\ \E i, j \in UpdatesOf(id) :
                /\ i < j
                /\ FetchedUpdates[i].task_completed_at > FetchedUpdates[j].task_completed_at
                /\ FetchedUpdates[j].task_completed_at # 0
                /\ FetchedUpdates[i].task_status = NULL
                /\ FetchedUpdates[j].task_status = "done"
          /\ StatusOf(findResult, id) = "pending"

\* C6: every view of the result has a creation record among the fetched
\* creation records: a task id found only in update records is never returned
UpdatesNeverMaterialize ==
    findDone =>
        \A k \in 1..Len(findResult.views) :
            CreationsOf(findResult.views[k].taskId) # {}

\* one task has only an update record, another one is returned
UpdatesNeverMaterializeWitness ==
    /\ findDone
    /\ findResult.views # <<>>
    /\ \E id \in TaskIds :
          /\ UpdatesOf(id) # {}
          /\ CreationsOf(id) = {}
          /\ ViewsOf(findResult, id) = {}

\* the first fetched creation record of a task
FirstCreation(id) ==
    FetchedTasks[CHOOSE i \in CreationsOf(id) : \A i2 \in CreationsOf(id) : i <= i2]

\* C7: the result has at most one view per task id, and never one without an
\* id; the creation fields of a view are those of the first fetched creation
\* record of the task
OneViewPerTask ==
    findDone =>
        /\ \A k1, k2 \in 1..Len(findResult.views) :
              findResult.views[k1].taskId = findResult.views[k2].taskId => k1 = k2
        /\ \A k \in 1..Len(findResult.views) :
              LET view == findResult.views[k]
              IN  /\ view.taskId \in TaskIds
                  /\ view.priority = IF FirstCreation(view.taskId).priority # NULL
                                     THEN FirstCreation(view.taskId).priority ELSE "P2"
                  /\ view.project = FirstCreation(view.taskId).project

\* two fetched creation records of one task with different priorities
OneViewPerTaskWitness ==
    /\ findDone
    /\ \E id \in TaskIds :
          /\ \E i, j \in CreationsOf(id) :
                i < j /\ FetchedTasks[i].priority = NULL /\ FetchedTasks[j].priority = "P0"
          /\ \E k \in ViewsOf(findResult, id) : findResult.views[k].priority = "P2"

\* the status a creation record carries by itself
OwnStatus(info) == IF info.task_status # NULL THEN info.task_status ELSE "pending"

\* C8: findTasks does not raise; when the creation search fails the result is
\* empty; when only the update search fails every task with a creation record
\* is reported (unless the status filter excludes it) with the status of its
\* creation record and without completion data
FindTasksNeverRaises ==
    findDone =>
        /\ ~findResult.raised
        /\ ~tasksFetch.ok => findResult.views = <<>>
        /\ (tasksFetch.ok /\ ~updatesFetch.ok) =>
              /\ \A k \in 1..Len(findResult.views) :
                    LET view == findResult.views[k]
                    IN  /\ view.task_status = OwnStatus(FirstCreation(view.taskId))
                        /\ view.task_completed_at = 0
                        /\ view.outcome = NULL
              /\ \A id \in TaskIds :
                    (/\ CreationsOf(id) # {}
                     /\ findFilter.status \in {NULL, OwnStatus(FirstCreation(id))})
                        => ViewsOf(findResult, id) # {}

\* the update search failed and the tasks are still reported
FindTasksNeverRaisesWitness ==
    /\ findDone
    /\ tasksFetch.ok
    /\ ~updatesFetch.ok
    /\ Len(findResult.views) = 2

\* C9: every prompt of at least 8 characters that matches a force pattern is
\* classified "force", whatever its length and whether or not it also matches
\* a casual pattern.
DecisionForcePrecedence ==
    (decisionDone /\ Len(prompt) >= 8 /\ isForce(Lower(prompt)))
        => decision = "force"

\* C10 as stated: a prompt that matches no force pattern is classified "skip"
\* exactly when it is shorter than 8 characters, or it matches a casual
\* pattern and (its length is below 15 or it has at most 3 words), and
\* "retrieve" otherwise; the result is one of skip, retrieve, force.
DecisionSkipRuleUngated ==
    decisionDone =>
        /\ decision \in {"skip", "retrieve", "force"}
        /\ ~isForce(Lower(prompt)) =>
              decision =
                  IF \/ Len(prompt) < 8
                     \/ /\ isCasual(Lower(prompt))
                        /\ \/ Len(Lower(prompt)) < 15
                           \/ Len(SplitSpace(Lower(prompt))) <= 3
                  THEN "skip" ELSE "retrieve"

\* C10: a prompt that matches no force pattern is classified "skip" exactly
\* when it is shorter than 8 characters, or it matches a casual pattern and,
\* lowercased and trimmed, it is either shorter than 15 characters or both
\* shorter than 30 characters and of at most 3 words; otherwise it is
\* classified "retrieve".  The result is always one of skip, retrieve, force.
DecisionSkipRule ==
    decisionDone =>
        /\ decision \in {"skip", "retrieve", "force"}
        /\ ~isForce(Lower(prompt)) =>
              decision =
                  IF \/ Len(prompt) < 8
                     \/ /\ isCasual(Lower(prompt))
                        /\ \/ Len(Lower(prompt)) < 15
                           \/ /\ Len(Lower(prompt)) < 30
                              /\ Len(SplitSpace(Lower(prompt))) <= 3
                  THEN "skip" ELSE "retrieve"

\* a casual prompt of at most 3 words but 30 characters or more, with no force
\* pattern, has been classified "retrieve"
DecisionSkipRuleWitness ==
    /\ decisionDone
    /\ ~isForce(Lower(prompt))
    /\ isCasual(Lower(prompt))
    /\ Len(SplitSpace(Lower(prompt))) <= 3
    /\ Len(Lower(prompt)) >= 30
    /\ decision = "retrieve"

\* C15: when the completion call of rerankMemories fails, rerankMemories
\* raises nothing and returns its candidates unchanged: same length, same
\* elements, same order.
RerankFailOpen ==
    (rerankDone /\ ~completion.ok) =>
        /\ ~reranked.raised
        /\ Len(reranked.memories) = Len(candidates)
        /\ \A i \in 1..Len(candidates) : reranked.memories[i] = candidates[i]

\* the completion call was made, failed, and the candidates came back
RerankFailOpenWitness ==
    /\ rerankDone
    /\ ~completion.ok
    /\ Len(candidates) >= MIN_MEMORIES_TO_RERANK
    /\ candidates[1] # candidates[2]
    /\ reranked.memories = candidates

\* the answer names no index at all: an empty array
ValidEmptySelection(text) ==
    parseJSON(text).isArray /\ parseJSON(text).items = <<>>

\* the answer cannot be used: no array in it, or an array none of whose
\* elements is an index of a candidate
UnusableAnswer(text, count) ==
    \/ ~parseJSON(text).isArray
    \/ /\ parseJSON(text).items # <<>>
       /\ ValidIndices(parseJSON(text).items, 1, count, <<>>) = <<>>

\* C16: rerankMemories returns the empty list only when the answer is a valid
\* empty selection; when the answer is unusable (unparseable, not an array, or
\* only malformed or out-of-range indices) it returns the original candidates.
RerankEmptyOnlyWhenNoneRelevant ==
    (rerankDone /\ completion.ok /\ candidates # <<>>) =>
        /\ reranked.memories = <<>> => ValidEmptySelection(completion.response)
        /\ UnusableAnswer(completion.response, Len(candidates))
              => reranked.memories = candidates

\* the text filterBySufficiency compares for a memory
ComparedText(mem) == contentLower(getMemoryContent(mem))

\* the memory passes the length test and the meta-record test by itself
AcceptableAlone(mem, opts) ==
    /\ Len(getMemoryContent(mem)) >= opts.minLength
    /\ ~IsMetaRecord(getMemoryContent(mem))

\* C17: filterBySufficiency returns an order-preserving subsequence of its
\* input; every accepted candidate has length >= minLength; no accepted
\* candidate overlaps an earlier accepted one by more than maxOverlap (word-set
\* Jaccard of the texts compared); and of two candidates that overlap by at
\* least 80% only the first is retained under maxOverlap = 0.65.
SufficiencyFilterSubsequence ==
    filterDone =>
        /\ Len(filterOutput) = Len(filterAccepted)
        /\ \A k \in 1..Len(filterAccepted) :
              /\ filterAccepted[k] \in 1..Len(filterInput)
              /\ filterOutput[k] = filterInput[filterAccepted[k]]
              /\ Len(getMemoryContent(filterOutput[k])) >= filterOpts.minLength
        /\ \A j, k \in 1..Len(filterAccepted) :
              j < k =>
                 /\ filterAccepted[j] < filterAccepted[k]
                 /\ ~ExceedsPercent(overlapRatio(ComparedText(filterOutput[k]),
                                                 ComparedText(filterOutput[j])),
                                    filterOpts.maxDuplicateOverlap)
        /\ (/\ Len(filterInput) = 2
            /\ filterOpts.maxDuplicateOverlap = 65
            /\ AcceptableAlone(filterInput[1], filterOpts)
            /\ AcceptableAlone(filterInput[2], filterOpts)
            /\ LET r == overlapRatio(ComparedText(filterInput[2]), ComparedText(filterInput[1]))
               IN  r.num * 100 >= 80 * r.den)
              => filterOutput = <<filterInput[1]>>

\* two different candidates overlapping by at least 80% were passed under
\* maxOverlap = 0.65 and only the first came back
SufficiencyFilterSubsequenceWitness ==
    /\ filterDone
    /\ Len(filterInput) = 2
    /\ filterInput[1] # filterInput[2]
    /\ filterOpts.maxDuplicateOverlap = 65
    /\ LET r == overlapRatio(ComparedText(filterInput[2]), ComparedText(filterInput[1]))
       IN  r.num * 100 >= 80 * r.den /\ r.num < r.den
    /\ filterOutput = <<filterInput[1]>>

ApiSettled == apiPhase \in {"returned", "raised"}

\* what holds of callApi at every moment: attempts, result and back-off
ApiRetryContract ==
    /\ apiAttempt <= apiRetries
    /\ Len(apiErrors) <= apiRetries + 1
    /\ \A k \in 1..Len(apiErrors) : apiErrors[k].attempt = k - 1
    /\ apiPhase = "returned" =>
          /\ apiOutcome.ok
          /\ apiOutcome.attempt = Len(apiErrors)
          /\ apiAttempt = apiOutcome.attempt
    /\ apiPhase = "raised" =>
          /\ ~apiOutcome.ok
          /\ Len(apiErrors) = apiRetries + 1
          /\ apiOutcome.error = apiErrors[apiRetries + 1].kind
    /\ Len(apiWaits) = (IF Len(apiErrors) <= apiRetries THEN Len(apiErrors) ELSE apiRetries)
    /\ \A k \in 1..Len(apiWaits) : apiWaits[k] = 150 * Pow2(k - 1)

\* C19: callApi with retries = N makes at most N+1 attempts and always
\* terminates; it returns the answer of the first successful attempt and
\* attempts nothing more; when all N+1 attempts fail it raises the error of the
\* last one; after the k-th failed attempt (k = 0..N-1) it waits 150 * 2^k ms,
\* and it does not wait after the final attempt.
CallApiBoundedRetries ==
    /\ []ApiRetryContract
    /\ [][ApiSettled => UNCHANGED apiVars]_vars
    /\ <>ApiSettled

\* all attempts of a call with retries = 3 failed: four errors, three waits
CallApiBoundedRetriesWitness ==
    /\ apiPhase = "raised"
    /\ apiRetries = 3
    /\ Len(apiErrors) = 4
    /\ apiWaits = <<150, 300, 600>>
    /\ apiOutcome.error = "http"
    /\ apiErrors[1].kind = "timeout"

\* C11 as stated, for every prompt: in post-compaction mode the handler takes
\* the decision "force", is not stopped by the classification, consults the
\* health gate and, when the service is healthy, runs the two-search retrieval
ForcedAfterCompactionAnyPrompt ==
    injDone /\ injState.postCompaction =>
        /\ injResult.decision = "force"
        /\ injResult.stage # "skip"
        /\ injResult.healthConsulted
        /\ injEnv.healthy => injResult.searches = 2

\* C11 amended: the same for every prompt of at least 5 characters (an empty
\* or shorter prompt returns at the handler's first line in either mode)
ForcedAfterCompaction ==
    injDone /\ injState.postCompaction /\ Len(injPrompt) >= 5 =>
        /\ injResult.decision = "force"
        /\ injResult.stage # "skip"
        /\ injResult.healthConsulted
        /\ injEnv.healthy => injResult.searches = 2

\* a greeting, which the classification skips, is retrieved for after a compaction
ForcedAfterCompactionWitness ==
    /\ injDone
    /\ injState.postCompaction
    /\ injPrompt = PromptHello
    /\ preRetrievalDecision(injPrompt) = "skip"
    /\ injEnv.healthy
    /\ injResult.decision = "force"
    /\ injResult.searches = 2
    /\ injResult.injected

\* C13: when the handler fetched the pending tasks and the task search failed,
\* state.lastTodoRemindTime is what it was before the turn
TodoTimestampKeptOnFailure ==
    injDone /\ injResult.todoFetched /\ ~injEnv.taskFetch.tasks.ok =>
        injResult.lastTodoRemindTime = injState.lastTodoRemindTime

\* C14: a returned prependContext holds at least one non-empty block
InjectedSectionNeverEmpty ==
    injDone /\ injResult.injected => injResult.parts # <<>>

\* what holds of a flush at every moment of its persistence step
FlushTallyInvariant ==
    /\ flushStage \in {"awaiting", "done"} =>
          \A i \in 1..Len(flushEntries) : flushPcs[i] # "pending"
    /\ Len(flushSummaries) <= 1
    /\ Len(flushSummaries) = compactionCount
    /\ flushSummaries # <<>> <=> flushStage = "done"
    /\ flushStage = "done" =>
          /\ allSettled(flushPcs)
          /\ flushTally.saved + flushTally.skipped + flushTally.failed = Len(flushEntries)
          /\ flushTally.saved = Count(flushPcs, "saved")
          /\ flushTally.skipped = Count(flushPcs, "skipped")
          /\ flushTally.failed = Count(flushPcs, "failed")
          /\ flushSummaries[1].type = "compaction_summary"
          /\ flushSummaries[1].entries_saved = flushTally.saved
          /\ flushSummaries[1].entries_skipped = flushTally.skipped
          /\ flushSummaries[1].entries_failed = flushTally.failed
          /\ flushSummaries[1].settled = Len(flushEntries)
          /\ flushSummaries[1].compaction_number = 1
          /\ compactionCount = 1

\* C20: in a flush that reached the persistence step with N >= 1 entries every
\* entry's callback runs and settles whatever happens to the others; when the
\* summary is issued all N entries have settled and saved + skipped + failed
\* = N; one compaction_summary record with that tally is issued, never before
\* the last entry settled, and compactionCount grows by one, once
FlushTallyContract ==
    /\ []FlushTallyInvariant
    /\ [][flushSummaries' # flushSummaries => allSettled(flushPcs)]_vars
    /\ <>(flushStage = "done")

\* three entries: one skipped as a duplicate, one saved after another failed
FlushTallyContractWitness ==
    /\ flushStage = "done"
    /\ Len(flushEntries) = 3
    /\ flushPcs = <<"skipped", "failed", "saved">>
    /\ flushSummaries[1].entries_saved = 1
    /\ flushSummaries[1].entries_failed = 1
    /\ flushSummaries[1].entries_skipped = 1

\* C12: a path that called search, add or chat/complete consulted isHealthy
\* first, and isHealthy had answered true
HealthGateOnEveryPath ==
    hookDone /\ hookRun.calls # <<>> => hookRun.healthConsulted /\ hookHealthy

\* a step that is one call of isDuplicateMemory
IsDuplicateCall ==
    ncalls' = ncalls + 1 /\ lastCall'.op = "isDuplicateMemory"

\* C30: isDuplicateMemory leaves the cache as it was whenever it returns false
\* (no entry, an expired entry, a text under 20 characters); when it returns
\* true it changes only count (+1) and lastSeen (the instant of the call) of
\* the entry of the hash; it never inserts and never removes an entry
IsDuplicateFrame ==
    [][IsDuplicateCall =>
        LET h == computeContentHash(lastCall'.text, lastCall'.type)
        IN  /\ DOMAIN recentHashes' = DOMAIN recentHashes
            /\ ~lastCall'.ret => recentHashes' = recentHashes
            /\ lastCall'.ret =>
                 /\ h \in DOMAIN recentHashes
                 /\ recentHashes'[h] = [count |-> recentHashes[h].count + 1,
                                        lastSeen |-> now]
                 /\ \A k \in (DOMAIN recentHashes) \ {h} :
                        recentHashes'[k] = recentHashes[k]]_vars

\* a call that found an expired entry returned false and the entry is still
\* there
IsDuplicateFrameWitness ==
    /\ lastCall.op = "isDuplicateMemory"
    /\ ~lastCall.ret
    /\ LET h == computeContentHash(lastCall.text, lastCall.type)
       IN  /\ h \in DOMAIN recentHashes
           /\ ~(now - recentHashes[h].lastSeen < DEDUP_WINDOW_MS)

\* post-compaction mode as the events define it: an after_compaction event
\* happened at t and the instant is in [t, t + 2 min)
InPostCompactionWindow(since, t) ==
    since # -1 /\ since <= t /\ t < since + POST_COMPACTION_WINDOW_MS

\* C24: isPostCompaction() is false before any after_compaction event; after
\* one at t it is true on [t, t + 2 min) and false from t + 2 min on, until
\* another after_compaction; the retrieval decision (forced in the mode) and
\* the extraction skip both read this state
PostCompactionTimeBoxed ==
    /\ isPostCompaction(lastCompactionTime, now) <=> InPostCompactionWindow(compactedAt, now)
    /\ exLog.hook = "after_compaction" => exLog.post
    /\ exLog.hook \in {"agent_end", "before_agent_start"} =>
           (exLog.post <=> InPostCompactionWindow(exLog.since, exLog.at))
    /\ exLog.hook = "before_agent_start" /\ exLog.post => exLog.outcome = "force"
    /\ exLog.hook = "agent_end" /\ exLog.outcome # "guard" =>
           (exLog.post <=> exLog.outcome = "post-compaction")

\* an agent_end exactly 2 minutes after the compaction finds the mode off, and
\* is not skipped as post-compaction
PostCompactionTimeBoxedWitness ==
    /\ exLog.hook = "agent_end"
    /\ exLog.at = exLog.since + POST_COMPACTION_WINDOW_MS
    /\ ~exLog.post
    /\ exLog.outcome = "run"

\* C22: any two extraction runs of one handler start at least THROTTLE_MS
\* (5 minutes) apart, whatever the order and timing of the agent_end events
\* and however long the runs take; two events at the same instant never both
\* pass the throttle
ExtractionRunsThrottled ==
    \A i, j \in 1..Len(exRuns) :
        i < j => exRuns[j].start - exRuns[i].start >= THROTTLE_MS

\* a second run started exactly 5 minutes after the first, which still awaits
\* its extraction
ExtractionRunsThrottledWitness ==
    /\ Len(exRuns) = 2
    /\ exRuns[2].start - exRuns[1].start = THROTTLE_MS
    /\ exRuns[1].pc = "extracting"

\* C23: an agent_end event handled while post-compaction mode is active
\* starts no extraction and writes nothing, and leaves lastRunTime as it was
PostCompactionSkipsExtraction ==
    [][(/\ exEvents' = exEvents + 1
        /\ exLog'.hook = "agent_end"
        /\ InPostCompactionWindow(compactedAt, now))
       => /\ lastRunTime' = lastRunTime
          /\ exRuns' = exRuns
          /\ exWrites' = exWrites
          /\ exSkips' = exSkips
          /\ recentHashes' = recentHashes]_vars

\* an agent_end that passed the guard was skipped for post-compaction, with
\* the throttle never stamped
PostCompactionSkipsExtractionWitness ==
    /\ exLog.hook = "agent_end"
    /\ exLog.outcome = "post-compaction"
    /\ InPostCompactionWindow(exLog.since, exLog.at)
    /\ lastRunTime = 0
    /\ exRuns = <<>>

\* C26 as claimed: a memory's hash is marked only after its write succeeded: a
\* memory whose write failed is not in the cache, and a memory is skipped as a
\* duplicate only when a write of it succeeded
MarkedOnlyAfterWriteSucceeded ==
    LET written(h) == \E k \in 1..Len(exWrites) :
                          exWrites[k].hash = h /\ exWrites[k].status = "ok"
    IN  /\ \A k \in 1..Len(exWrites) :
               exWrites[k].status = "failed" /\ exWrites[k].hash \in DOMAIN recentHashes
                   => written(exWrites[k].hash)
        /\ \A s \in 1..Len(exSkips) : written(exSkips[s].hash)

\* C27 as claimed: for each tool name, a completion triggers a skill-extraction
\* attempt (a completion call) only if no attempt was made for that tool name
\* within the last 10 minutes: two attempts for one tool are more than
\* SKILL_EXTRACTION_COOLDOWN_MS apart
SkillAttemptsRateLimited ==
    \A i, j \in 1..Len(skillAttempts) :
        i < j /\ skillAttempts[i].toolName = skillAttempts[j].toolName
            => skillAttempts[j].at - skillAttempts[i].at > SKILL_EXTRACTION_COOLDOWN_MS

\* what every finished call of isHealthy satisfies
HealthCallContract(call) ==
    /\ call.pc # "raised"
    /\ call.pc = "returned" =>
        /\ call.hit <=> call.start - call.seenCheckedAt < CACHE_TTL_MS
        /\ call.hit => call.probes = 0 /\ call.result = call.seenHealthy
        /\ ~call.hit =>
            /\ call.probes \in {1, 2}
            /\ call.probes = 2 <=> ~call.firstOk
            /\ call.result = call.lastOk

HookCanProceed ==
    ENABLED (firePc < MaxHookSteps /\ firePc' = firePc + 1
             /\ UNCHANGED <<fireWrites, fireLogged, fireSurfaced, notFireVars>>)

\* C29: addMemory returns to the calling hook before the write completes and
\* never surfaces a failure: whatever the writes do (succeed, fail on every
\* attempt, stay in flight) the hook can take its next statement, no step of
\* a write moves the hook, and no rejection reaches the caller or the host
FireAndForget ==
    /\ [](fireSurfaced = 0)
    /\ [](firePc < MaxHookSteps => HookCanProceed)
    /\ [][fireWrites' # fireWrites /\ Len(fireWrites') = Len(fireWrites)
            => firePc' = firePc]_vars
    /\ [][firePc' # firePc => firePc' = firePc + 1]_vars

\* the hook has finished while one of its writes failed after its last
\* attempt and another is still in flight
FireAndForgetWitness ==
    /\ firePc = MaxHookSteps
    /\ fireLogged > 0
    /\ \E k \in 1..Len(fireWrites) :
           fireWrites[k].status = "rejected" /\ fireWrites[k].attempt = ADD_RETRIES
    /\ \E k \in 1..Len(fireWrites) : fireWrites[k].status = "fetching"

\* the flush has ended after 2 segments that yielded 2 entries each, exactly
\* one of the 4 with a hash the cache held fresh, and no add failed
ScenarioTwoSegments ==
    /\ bcStage = "persisting"
    /\ flushStage = "done"
    /\ Len(bcSegments) = 2
    /\ bcYields = <<2, 2>>
    /\ bcSeen = 1
    /\ Count(flushPcs, "failed") = 0

\* the outcome of the scenario: 3 saved, 1 skipped, 0 failed, and exactly one
\* compaction-summary record, issued after every entry settled
ScenarioOutcome ==
    /\ flushTally = [saved |-> 3, skipped |-> 1, failed |-> 0]
    /\ Len(flushSummaries) = 1
    /\ flushSummaries[1].entries_saved = 3
    /\ flushSummaries[1].entries_skipped = 1
    /\ flushSummaries[1].entries_failed = 0
    /\ flushSummaries[1].settled = 4

\* C21 as claimed: a before_compaction event with 10 messages and a healthy
\* service is segmented into 2 segments, and with each segment yielding 2
\* entries of which one has an already-seen hash the flush ends with 3 saved,
\* 1 skipped, 0 failed and exactly one compaction-summary record
ScenarioTenMessages ==
    /\ (Len(bcMessages) = 10 /\ bcStage \in {"summarizing", "persisting"})
           => Len(bcSegments) = 2
    /\ ScenarioTwoSegments => ScenarioOutcome

\* C21 as amended: an event with at most 12 messages is summarized as one
\* segment; when an event (of more than 12 messages) is segmented into 2
\* segments, each yields 2 entries, exactly one of the 4 has a hash the cache
\* holds fresh and no add fails, the flush ends with 3 saved, 1 skipped,
\* 0 failed and exactly one compaction-summary record issued afterwards
ScenarioFlush ==
    /\ (Len(bcMessages) <= FlushMaxSegment /\ bcStage \in {"summarizing", "persisting"})
           => Len(bcSegments) = 1
    /\ ScenarioTwoSegments => Len(bcMessages) > FlushMaxSegment /\ ScenarioOutcome

\* the scenario was run to its end on 16 messages
ScenarioFlushWitness ==
    /\ ScenarioTwoSegments
    /\ Len(bcMessages) = 16
    /\ flushPcs = <<"skipped", "saved", "saved", "saved">>

RECURSIVE SegStart(_)
SegStart(k) == IF k = 1 THEN 1 ELSE SegStart(k - 1) + Len(segments[k - 1])

SegEnd(k) == SegStart(k) + Len(segments[k]) - 1

\* a segment that starts at s has a topic turn at p: it has reached
\* minSegment, the message at p is the assistant's and the next is the user's
TopicTurn(s, p) ==
    /\ p - s + 1 >= segOpts.minSegment
    /\ flat[p].role = "assistant"
    /\ p + 1 <= Len(flat)
    /\ flat[p + 1].role = "user"

\* a segment that starts at s holds exactly maxSegment messages at p
ForcedCut(s, p) == p - s + 1 = segOpts.maxSegment

\* the positions before the end of the input where a segment that starts at
\* s meets one of the two conditions
CutPositions(s) ==
    {p \in s..(Len(flat) - 1) : TopicTurn(s, p) \/ ForcedCut(s, p)}

\* every boundary of the result is a topic turn or a forced cut, and lies at
\* the first position of its segment where one of the two holds
BoundariesAtFirstCut ==
    \A k \in 1..(Len(segments) - 1) :
        /\ TopicTurn(SegStart(k), SegEnd(k)) \/ ForcedCut(SegStart(k), SegEnd(k))
        /\ \A p \in CutPositions(SegStart(k)) : p >= SegEnd(k)

\* C31 as claimed: every boundary between two consecutive segments is a topic
\* turn or a forced cut at exactly maxSegment messages, and a cut is made at
\* the first position where either condition holds, for every input
SegmentationCutsAnyInput ==
    segDone => /\ BoundariesAtFirstCut
               /\ CutPositions(SegStart(Len(segments))) = {}

\* C31 as amended: every boundary between two consecutive segments is a topic
\* turn or a forced cut at exactly maxSegment messages, at the first position
\* of its segment where either condition holds; an input of at most
\* maxSegment messages is not cut at all, and in a longer input the first
\* position of the last segment where a condition holds is left without a
\* boundary only when fewer than minSegment messages follow it (the short
\* tail merged back)
SegmentationCuts ==
    segDone =>
        LET last == SegStart(Len(segments))
        IN  /\ BoundariesAtFirstCut
            /\ Len(flat) <= segOpts.maxSegment => Len(segments) = 1
            /\ (Len(flat) > segOpts.maxSegment /\ CutPositions(last) # {}) =>
                     \E p \in CutPositions(last) :
                         /\ \A q \in CutPositions(last) : p <= q
                         /\ Len(flat) - p < segOpts.minSegment

\* a long input cut once at a topic turn before maxSegment and once by force
\* where no topic turn was, with a last segment that was not merged
SegmentationCutsWitness ==
    /\ segDone
    /\ Len(flat) > segOpts.maxSegment
    /\ Len(segments) >= 3
    /\ \E k \in 1..(Len(segments) - 1) :
          TopicTurn(SegStart(k), SegEnd(k)) /\ ~ForcedCut(SegStart(k), SegEnd(k))
    /\ \E k \in 1..(Len(segments) - 1) :
          ForcedCut(SegStart(k), SegEnd(k)) /\ ~TopicTurn(SegStart(k), SegEnd(k))
    /\ CutPositions(SegStart(Len(segments))) = {}

\* the fields a view reports equal the values the filter gives
MatchesFilter(view, filter) ==
    /\ filter.status # NULL => view.task_status = filter.status
    /\ filter.priority # NULL => view.priority = filter.priority
    /\ filter.project # NULL => view.project = filter.project

\* the views of findTasks() on the same records
UnfilteredViews == findTasks(tasksFetch, updatesFetch, NoFilter).views

\* C32: findTasks(filter) returns exactly the views of findTasks() whose
\* reported task_status, priority (P2 when the record has none) and project
\* equal the values of the filter: every returned view matches and no
\* matching view is missing
FilterReturnsMatchingViews ==
    findDone =>
        LET Matches(view) == MatchesFilter(view, findFilter)
        IN  findResult.views = SelectSeq(UnfilteredViews, Matches)

\* the types of a list
TypesIn(types) == {types[k] : k \in 1..Len(types)}

\* the memories of the types among the first n tried whose completion gave a
\* usable array, in the order the types were tried
RECURSIVE CollectedUpTo(_)
CollectedUpTo(n) ==
    IF n = 0 THEN <<>>
    ELSE CollectedUpTo(n - 1)
             \o (IF typedOutcomes[n] = "items"
                 THEN <<[type |-> relevantTypes[n], content |-> TextA]>>
                 ELSE <<>>)

\* C33: the detector never selects the empty list and selects the generic
\* fact exactly when no other category matched; every selected category is
\* tried, whatever the ones before it gave, a category whose completion
\* failed or was unparseable contributes nothing, and the memories of the
\* others are all returned
TypedExtractionIsolated ==
    /\ typedIndex > 0 =>
          /\ relevantTypes # <<>>
          /\ "fact" \in TypesIn(relevantTypes) <=> matchedTypes(typedText) = <<>>
          /\ Len(typedOutcomes) = typedIndex - 1
          /\ allMemories = CollectedUpTo(Len(typedOutcomes))
    /\ typedReturned => Len(typedOutcomes) = Len(relevantTypes)

\* three types were selected, the completion of the first failed in
\* transport, the second was unparseable, and the memory of the third was
\* returned
TypedExtractionIsolatedWitness ==
    /\ typedReturned
    /\ Len(relevantTypes) >= 3
    /\ typedOutcomes[1] = "transport"
    /\ typedOutcomes[2] = "unparseable"
    /\ typedOutcomes[3] = "items"
    /\ allMemories = <<[type |-> relevantTypes[3], content |-> TextA]>>

\* nothing matched and the generic fact alone was extracted
TypedExtractionFallbackWitness ==
    /\ typedReturned
    /\ relevantTypes = <<"fact">>
    /\ matchedTypes(typedText) = <<>>
    /\ typedText.skillWord /\ ~typedText.long

\* the elements of the parsed answer, and the index each one stands for
AnswerItems == parseJSON(completion.response).items

AnswerIndex(i) == IndexOf(AnswerItems[i], Len(candidates))

\* the positions of the answer that name a valid index for the first time
ListedPositions ==
    {i \in 1..Len(AnswerItems) :
        /\ AnswerIndex(i).valid
        /\ \A j \in 1..(i - 1) :
              ~(AnswerIndex(j).valid /\ AnswerIndex(j).n = AnswerIndex(i).n)}

\* the place in the result of the index listed at position i
RankOf(i) == Cardinality({j \in ListedPositions : j <= i})

\* every element of the result is an element of the input, no element of the
\* input being used twice
SubCollection(result, input) ==
    \E f \in [1..Len(result) -> 1..Len(input)] :
        /\ \A k, l \in 1..Len(result) : f[k] = f[l] => k = l
        /\ \A k \in 1..Len(result) : result[k] = input[f[k]]

\* C34: given a parseable array with at least one valid index, the result is
\* the candidates at the valid indices, each once, in the order the answer
\* lists them; with fewer than 3 candidates no completion is called and the
\* input is returned as it is; the result is always a sub-collection of the
\* input
RerankSelection ==
    rerankDone =>
        /\ SubCollection(reranked.memories, candidates)
        /\ Len(candidates) < 3 =>
              ~rerankCalled /\ reranked.memories = candidates
        /\ (/\ Len(candidates) >= 3
            /\ completion.ok
            /\ parseJSON(completion.response).isArray
            /\ ListedPositions # {}) =>
              /\ rerankCalled
              /\ Len(reranked.memories) = Cardinality(ListedPositions)
              /\ \A i \in ListedPositions :
                    reranked.memories[RankOf(i)] = candidates[AnswerIndex(i).n + 1]

\* the answer [2, 0, 2] over three candidates of which the first and the third
\* differ: the third comes first and is not repeated
RerankSelectionWitness ==
    /\ rerankDone
    /\ Len(candidates) = 3
    /\ candidates[1] # candidates[3]
    /\ completion.ok
    /\ completion.response = RespDupOrder
    /\ reranked.memories = <<candidates[3], candidates[1]>>

\* the entries of the flush that have the content hash of entry i
SameHashAs(i) ==
    {j \in 1..Len(flushEntries) :
        computeContentHash(flushEntries[j], DefaultType)
            = computeContentHash(flushEntries[i], DefaultType)}

\* C35: of the entries of one flush that have the same content hash (at least
\* 20 characters) at most one is persisted, and once one is persisted the
\* others are counted as skipped
FlushPersistsHashOnce ==
    flushStage = "done" =>
        \A i \in 1..Len(flushEntries) :
            (Len(flushEntries[i]) >= 20 /\ flushPcs[i] = "saved") =>
                \A j \in SameHashAs(i) \ {i} : flushPcs[j] = "skipped"

\* call k of createTask wrote its creation record
Created(k) == createLog[k].task_status = "pending"

\* calls k and l were given the same title, whose content has at least 20
\* characters, and l started within the dedup window after k started
SameTitleWithinWindow(k, l) ==
    /\ k < l
    /\ createLog[k].title = createLog[l].title
    /\ Len(taskContent(createLog[k].title)) >= 20
    /\ createLog[l].startedAt - createLog[k].startedAt < DEDUP_WINDOW_MS

\* C36: of the createTask calls with the same title started within the dedup
\* window, whatever their interleaving, at most one writes a creation record
CreateTaskOncePerWindow ==
    \A k, l \in 1..Len(createLog) :
        SameTitleWithinWindow(k, l) => ~(Created(k) /\ Created(l))

\* the step in which the write of call k is rejected
CreateRejectedStep(k) ==
    createLog[k].pc = "adding" /\ createLog'[k].pc = "raised"

\* the step in which createTask is called for a title no call has created yet
CreateCalledAfterNoSuccess ==
    /\ Len(createLog') = Len(createLog) + 1
    /\ \A k \in 1..Len(createLog) :
          createLog[k].title = createLog'[Len(createLog')].title => ~Created(k)

\* C37: when the write of createTask fails, createTask raises, reports no
\* task, writes no record and leaves the dedup cache as it was; a createTask
\* for a title whose earlier calls all failed (or are still writing) is not
\* answered "duplicate"
CreateFailureLeavesNoTrace ==
    /\ [][\A k \in 1..Len(createLog) :
            CreateRejectedStep(k) =>
                /\ recentHashes' = recentHashes
                /\ taskRecords' = taskRecords
                /\ createLog'[k].taskId = NULL
                /\ createLog'[k].task_status = NULL]_vars
    /\ [][CreateCalledAfterNoSuccess =>
            createLog'[Len(createLog')].task_status # "duplicate"]_vars

\* the write of the first call failed, and a second call for the same title,
\* made within the window, created the task
CreateFailureLeavesNoTraceWitness ==
    /\ Len(createLog) >= 2
    /\ createLog[1].pc = "raised"
    /\ createLog[2].title = createLog[1].title
    /\ Len(taskContent(createLog[1].title)) >= 20
    /\ createLog[2].startedAt - createLog[1].startedAt < DEDUP_WINDOW_MS
    /\ createLog[2].startedAt > createLog[1].startedAt
    /\ Created(2)
    /\ Len(taskRecords) = 1

\* the ids of the creation records in the store
StoredTaskIds == {taskRecords[k].task_id : k \in 1..Len(taskRecords)}

\* C39: a task that findTasks reported as done is reported as done by every
\* later findTasks, whatever was created or completed in between (the same
\* task completed again included), and a completion for an id that was never
\* created makes no task appear
TaskStatusNeverGoesBack ==
    /\ doneSeen \subseteq DoneIn(taskViews)
    /\ \A k \in 1..Len(taskViews) : taskViews[k].taskId \in StoredTaskIds

\* t1 was reported done, was completed a second time a second later, and is
\* still reported done, next to a pending task
TaskStatusNeverGoesBackWitness ==
    /\ "t1" \in doneSeen
    /\ Len(taskUpdates) = 2
    /\ taskUpdates[1].task_id = "t1"
    /\ taskUpdates[2].task_id = "t1"
    /\ taskUpdates[2].task_completed_at > taskUpdates[1].task_completed_at
    /\ Len(taskViews) = 2
    /\ "t1" \in DoneIn(taskViews)
    /\ "t2" \notin DoneIn(taskViews)

\* the step in which caller c is answered from the cache
CacheHitStep(c) ==
    healthCalls'[c] # healthCalls[c] /\ healthCalls'[c].hit

\* C38: whatever the interleaving of the isHealthy calls, a value returned
\* from the cache is the result of a completed health check, never the
\* result of a first failed probe whose retry another call has still to make
HealthCacheHoldsCompletedCheck ==
    [][\A c \in HealthCallers : CacheHitStep(c) => healthyFrom = "completed check"]_vars

\* the last event was an agent_end that left at the post-compaction test
ExtractionSuppressed ==
    exLog.hook = "agent_end" /\ exLog.outcome = "post-compaction"

\* C40: an agent_end extraction is skipped for post-compaction mode only when
\* the before_compaction run of that compaction persisted at least one entry;
\* after a run that was skipped or saved nothing, the after_compaction event
\* does not make agent_end skip the extraction
SuppressedOnlyAfterPersistedFlush ==
    ExtractionSuppressed => (flushStage = "done" /\ flushTally.saved > 0)

====
